---- MODULE Spec2Model ----
(***************************************************************************)
(* gcfg: the configuration aggregator (Config), its nested-map navigator,  *)
(* the two merges, LowercaseKeys and the reflective deep clone, modelled   *)
(* over an explicit heap of Go map and slice objects so that aliasing      *)
(* between the Config, the provider outputs and returned values is part of *)
(* the state.                                                              *)
(***************************************************************************)
EXTENDS Integers, Sequences, FiniteSets, TLC

(***************************************************************************)
(* Bounds of the model.                                                    *)
(***************************************************************************)
\* number of heap cells (Go objects alive at the same time)
MaxAddr == 10
\* number of API calls issued by the callers in one behaviour
MaxOps == 2

(***************************************************************************)
(* Strings are sequences of one-character strings, so that ToLower,        *)
(* TrimSpace and Split are computed and not assumed.                       *)
(***************************************************************************)
LowerOf ==
    "A" :> "a" @@ "B" :> "b" @@ "C" :> "c" @@ "D" :> "d" @@ "E" :> "e" @@ "F" :> "f" @@
    "G" :> "g" @@ "H" :> "h" @@ "I" :> "i" @@ "J" :> "j" @@ "K" :> "k" @@ "L" :> "l" @@
    "M" :> "m" @@ "N" :> "n" @@ "O" :> "o" @@ "P" :> "p" @@ "Q" :> "q" @@ "R" :> "r" @@
    "S" :> "s" @@ "T" :> "t" @@ "U" :> "u" @@ "V" :> "v" @@ "W" :> "w" @@ "X" :> "x" @@
    "Y" :> "y" @@ "Z" :> "z"
UpperOf ==
    "a" :> "A" @@ "b" :> "B" @@ "c" :> "C" @@ "d" :> "D" @@ "e" :> "E" @@ "f" :> "F" @@
    "g" :> "G" @@ "h" :> "H" @@ "i" :> "I" @@ "j" :> "J" @@ "k" :> "K" @@ "l" :> "L" @@
    "m" :> "M" @@ "n" :> "N" @@ "o" :> "O" @@ "p" :> "P" @@ "q" :> "Q" @@ "r" :> "R" @@
    "s" :> "S" @@ "t" :> "T" @@ "u" :> "U" @@ "v" :> "V" @@ "w" :> "W" @@ "x" :> "X" @@
    "y" :> "Y" @@ "z" :> "Z"

ToLowerChar(c) == IF c \in DOMAIN LowerOf THEN LowerOf[c] ELSE c
ToUpperChar(c) == IF c \in DOMAIN UpperOf THEN UpperOf[c] ELSE c

\* strings.ToLower, strings.ToUpper
ToLower(s) == [i \in 1..Len(s) |-> ToLowerChar(s[i])]
ToUpper(s) == [i \in 1..Len(s) |-> ToUpperChar(s[i])]

RECURSIVE TrimLeft(_)
TrimLeft(s) == IF s # <<>> /\ Head(s) = " " THEN TrimLeft(Tail(s)) ELSE s

RECURSIVE TrimRight(_)
TrimRight(s) ==
    IF s # <<>> /\ s[Len(s)] = " " THEN TrimRight(SubSeq(s, 1, Len(s) - 1)) ELSE s

\* strings.TrimSpace
TrimSpace(s) == TrimRight(TrimLeft(s))

\* strings.Split(s, "."): always at least one part
RECURSIVE SplitDot(_, _, _)
SplitDot(s, cur, acc) ==
    IF s = <<>> THEN Append(acc, cur)
    ELSE IF Head(s) = "." THEN SplitDot(Tail(s), <<>>, Append(acc, cur))
    ELSE SplitDot(Tail(s), Append(cur, Head(s)), acc)

Split(s) == SplitDot(s, <<>>, <<>>)

\* the key normalisation both merges and LowercaseKeys apply to a map key
NormalKey(k) == ToLower(TrimSpace(k))

\* keyToPathParts: lower-case, split on ".", trim every part
keyToPathParts(key) ==
    LET raw == Split(ToLower(key))
        parts == [i \in 1..Len(raw) |-> TrimSpace(raw[i])]
    IN [pathParts |-> SubSeq(parts, 1, Len(parts) - 1), finalKey |-> parts[Len(parts)]]

(***************************************************************************)
(* Values of type any, and the heap.                                       *)
(***************************************************************************)
Nil == [t |-> "nil"]
Val(n) == [t |-> "val", v |-> n]
Ref(a) == [t |-> "ref", a |-> a]

Addrs == 1..MaxAddr
Free == [kind |-> "free"]
EmptyMap == [k \in {} |-> Nil]
MapObj(m) == [kind |-> "map", m |-> m]
SliceObj(s) == [kind |-> "slice", s |-> s]

\* m[k] = v and delete(m, k) on a Go map
Put(m, k, v) == [x \in (DOMAIN m) \cup {k} |-> IF x = k THEN v ELSE m[x]]
Delete(m, k) == [x \in (DOMAIN m) \ {k} |-> m[x]]

HeapPut(h, a, k, v) == [h EXCEPT ![a] = MapObj(Put(h[a].m, k, v))]
HeapDelete(h, a, k) == [h EXCEPT ![a] = MapObj(Delete(h[a].m, k))]

\* v.(map[string]any) succeeds
IsMap(h, v) == v.t = "ref" /\ h[v.a].kind = "map"
IsSlice(h, v) == v.t = "ref" /\ h[v.a].kind = "slice"

FreeAddrs(h) == {a \in Addrs : h[a] = Free}
Room(h, n) == Cardinality(FreeAddrs(h)) >= n
\* make(map[string]any) and friends take the lowest free cell
NewAddr(h) == CHOOSE a \in FreeAddrs(h) : \A b \in FreeAddrs(h) : a <= b

(***************************************************************************)
(* Literals (map, slice and struct literals of the callers and providers)  *)
(* are trees; TreeOf reads a heap value back as a tree, which is what      *)
(* structural equality of two Go values compares.                          *)
(***************************************************************************)
TMap(f) == [t |-> "map", m |-> f]
TSlice(s) == [t |-> "slice", s |-> s]

RECURSIVE TreeOf(_, _)
TreeOf(h, v) ==
    IF v.t # "ref" THEN v
    ELSE IF h[v.a].kind = "map"
         THEN TMap([k \in DOMAIN h[v.a].m |-> TreeOf(h, h[v.a].m[k])])
         ELSE TSlice([i \in 1..Len(h[v.a].s) |-> TreeOf(h, h[v.a].s[i])])

\* number of map and slice objects of a literal
RECURSIVE TreeObjs(_)
RECURSIVE TreeObjsSum(_, _)
TreeObjsSum(f, ks) ==
    IF ks = {} THEN 0
    ELSE LET k == CHOOSE x \in ks : TRUE
         IN TreeObjs(f[k]) + TreeObjsSum(f, ks \ {k})
TreeObjs(t) ==
    IF t.t = "map" THEN 1 + TreeObjsSum(t.m, DOMAIN t.m)
    ELSE IF t.t = "slice" THEN 1 + TreeObjsSum(t.s, 1..Len(t.s))
    ELSE 0

\* evaluating a composite literal: fresh objects, result [h, v]
RECURSIVE Build(_, _)
RECURSIVE BuildMap(_, _, _, _)
RECURSIVE BuildSlice(_, _, _, _)
BuildMap(h, a, f, ks) ==
    IF ks = {} THEN [h |-> h, v |-> Ref(a)]
    ELSE LET k == CHOOSE x \in ks : TRUE
             r == Build(h, f[k])
         IN BuildMap(HeapPut(r.h, a, k, r.v), a, f, ks \ {k})
BuildSlice(h, a, s, i) ==
    IF i > Len(s) THEN [h |-> h, v |-> Ref(a)]
    ELSE LET r == Build(h, s[i])
         IN BuildSlice([r.h EXCEPT ![a] = SliceObj(Append(r.h[a].s, r.v))], a, s, i + 1)
Build(h, t) ==
    IF t.t = "map"
    THEN LET a == NewAddr(h)
         IN BuildMap([h EXCEPT ![a] = MapObj(EmptyMap)], a, t.m, DOMAIN t.m)
    ELSE IF t.t = "slice"
    THEN LET a == NewAddr(h)
         IN BuildSlice([h EXCEPT ![a] = SliceObj(<<>>)], a, t.s, 1)
    ELSE [h |-> h, v |-> t]

\* the objects a value keeps alive
RefsOf(h, a) ==
    IF h[a].kind = "map"
    THEN {h[a].m[k].a : k \in {x \in DOMAIN h[a].m : h[a].m[x].t = "ref"}}
    ELSE IF h[a].kind = "slice"
    THEN {h[a].s[i].a : i \in {x \in 1..Len(h[a].s) : h[a].s[x].t = "ref"}}
    ELSE {}

RECURSIVE ReachFrom(_, _)
ReachFrom(h, as) ==
    LET more == as \cup UNION {RefsOf(h, a) : a \in as}
    IN IF more = as THEN as ELSE ReachFrom(h, more)

ValAddrs(v) == IF v.t = "ref" THEN {v.a} ELSE {}

\* the garbage collector: cells no root reaches are free again
Collect(h, roots) ==
    LET live == ReachFrom(h, roots)
    IN [a \in Addrs |-> IF a \in live THEN h[a] ELSE Free]

(***************************************************************************)
(* internal/maps: FindNestedMap                                            *)
(***************************************************************************)
\* result [h, r]: r is the address of the target map, 0 for a nil map
NoMap == 0

RECURSIVE find(_, _, _, _, _)
\* find that, in create mode, replaces an entry that is no map by a new map
findForcing(h, m, parts, index, create) ==
    IF index > Len(parts) THEN [h |-> h, r |-> m]
    ELSE LET part == parts[index]
         IN IF part \in DOMAIN h[m].m /\ (IsMap(h, h[m].m[part]) \/ ~create)
            THEN LET val == h[m].m[part]
                 IN IF IsMap(h, val) THEN find(h, val.a, parts, index + 1, create)
                    ELSE [h |-> h, r |-> NoMap]
            ELSE IF create
                 THEN LET a == NewAddr(h)
                          h1 == [h EXCEPT ![a] = MapObj(EmptyMap)]
                      IN find(HeapPut(h1, m, part, Ref(a)), a, parts, index + 1, create)
                 ELSE [h |-> h, r |-> NoMap]

find(h, m, parts, index, create) ==
    IF index > Len(parts) THEN [h |-> h, r |-> m]
    ELSE LET part == parts[index]
         IN IF part \in DOMAIN h[m].m
            THEN LET val == h[m].m[part]
                 IN IF index = Len(parts)
                    THEN IF IsMap(h, val) THEN [h |-> h, r |-> val.a]
                         ELSE [h |-> h, r |-> NoMap]
                    ELSE IF IsMap(h, val) THEN find(h, val.a, parts, index + 1, create)
                         ELSE [h |-> h, r |-> NoMap]
            ELSE IF create
                 THEN LET a == NewAddr(h)
                          h1 == [h EXCEPT ![a] = MapObj(EmptyMap)]
                      IN find(HeapPut(h1, m, part, Ref(a)), a, parts, index + 1, create)
                 ELSE [h |-> h, r |-> NoMap]

FindNestedMap(h, m, pathParts, create) == find(h, m, pathParts, 1, create)

(***************************************************************************)
(* internal/reflection: IsNil and Clone                                    *)
(***************************************************************************)
\* only the untyped nil occurs among the modelled values
IsNil(v) == v.t = "nil"

\* result [h, v, panic].  reflect.ValueOf(nil) is the zero Value:
\* SetMapIndex with it deletes the key, Value.Set with it panics.
RECURSIVE Clone(_, _)
RECURSIVE CloneMap(_, _, _, _)
RECURSIVE CloneSlice(_, _, _, _)
CloneMap(h, src, new, ks) ==
    IF ks = {} THEN [h |-> h, v |-> Ref(new), panic |-> FALSE]
    ELSE LET k == CHOOSE x \in ks : TRUE
             r == Clone(h, h[src].m[k])
         IN IF r.panic THEN r
            ELSE IF r.v.t = "nil" THEN CloneMap(HeapDelete(r.h, new, k), src, new, ks \ {k})
            ELSE CloneMap(HeapPut(r.h, new, k, r.v), src, new, ks \ {k})
CloneSlice(h, src, new, i) ==
    IF i > Len(h[src].s) THEN [h |-> h, v |-> Ref(new), panic |-> FALSE]
    ELSE LET r == Clone(h, h[src].s[i])
         IN IF r.panic THEN r
            ELSE IF r.v.t = "nil" THEN [h |-> r.h, v |-> Nil, panic |-> TRUE]
            ELSE CloneSlice([r.h EXCEPT ![new] = SliceObj([r.h[new].s EXCEPT ![i] = r.v])],
                            src, new, i + 1)
\* a clone that copies the outermost map or slice only
CloneShallow(h, v) ==
    IF IsMap(h, v) \/ IsSlice(h, v)
    THEN LET a == NewAddr(h) IN [h |-> [h EXCEPT ![a] = h[v.a]], v |-> Ref(a), panic |-> FALSE]
    ELSE [h |-> h, v |-> v, panic |-> FALSE]

Clone(h, v) ==
    IF IsNil(v) THEN [h |-> h, v |-> Nil, panic |-> FALSE]
    ELSE IF IsSlice(h, v)
    THEN LET a == NewAddr(h)
             zero == [i \in 1..Len(h[v.a].s) |-> Nil]
         IN CloneSlice([h EXCEPT ![a] = SliceObj(zero)], v.a, a, 1)
    ELSE IF IsMap(h, v)
    THEN LET a == NewAddr(h)
         IN CloneMap([h EXCEPT ![a] = MapObj(EmptyMap)], v.a, a, DOMAIN h[v.a].m)
    ELSE [h |-> h, v |-> v, panic |-> FALSE]

\* objects reachable from a value: what a clone of it allocates at most
ObjCount(h, v) == Cardinality(ReachFrom(h, ValAddrs(v)))

(***************************************************************************)
(* internal/maps: Merge, MergeWithoutOverride, LowercaseKeys.              *)
(* A Go range over a map visits the keys in an unspecified order, and an   *)
(* entry created during the iteration may be produced or skipped: every    *)
(* operator below yields the set of heaps the call can end in.             *)
(***************************************************************************)
RECURSIVE Merge(_, _, _)
RECURSIVE MergeRange(_, _, _, _, _)

\* a loop body of Merge that keeps a destination value that is no mapping
MergeEntryKeeping(h, dst, src, k) ==
    LET val == h[src].m[k]
        normalK == NormalKey(k)
    IN IF normalK = <<>> THEN {h}
       ELSE IF normalK \in DOMAIN h[dst].m
            THEN IF IsMap(h, h[dst].m[normalK]) /\ IsMap(h, val)
                 THEN Merge(h, h[dst].m[normalK].a, val.a)
                 ELSE {h}
            ELSE {HeapPut(h, dst, normalK, val)}

\* a loop body of Merge that replaces without recursing into mappings
MergeEntryReplacing(h, dst, src, k) ==
    LET val == h[src].m[k]
        normalK == NormalKey(k)
    IN IF normalK = <<>> THEN {h} ELSE {HeapPut(h, dst, normalK, val)}

\* one iteration of the loop body of Merge, for the source key k
MergeEntry(h, dst, src, k) ==
    LET val == h[src].m[k]
        normalK == NormalKey(k)
    IN IF normalK = <<>> THEN {h}
       ELSE IF /\ normalK \in DOMAIN h[dst].m
               /\ IsMap(h, h[dst].m[normalK])
               /\ IsMap(h, val)
            THEN Merge(h, h[dst].m[normalK].a, val.a)
            ELSE {HeapPut(h, dst, normalK, val)}

MergeRange(h, dst, src, todo, done) ==
    IF todo = {} THEN {h}
    ELSE UNION {
           UNION {
             LET created == (DOMAIN h2[src].m) \ (todo \cup done)
             IN UNION { MergeRange(h2, dst, src, (todo \ {k}) \cup vis,
                                   done \cup {k} \cup (created \ vis))
                        : vis \in SUBSET created }
             : h2 \in MergeEntry(h, dst, src, k) }
           : k \in todo }

Merge(h, dst, src) == MergeRange(h, dst, src, DOMAIN h[src].m, {})

RECURSIVE MergeWithoutOverride(_, _, _)
RECURSIVE MergeWithoutOverrideRange(_, _, _, _, _)

\* a loop body of MergeWithoutOverride that replaces what is no mapping
MergeWithoutOverrideEntryReplacing(h, dst, src, k) ==
    LET val == h[src].m[k]
        normalK == NormalKey(k)
    IN IF normalK = <<>> THEN {h}
       ELSE IF /\ normalK \in DOMAIN h[dst].m
               /\ IsMap(h, h[dst].m[normalK])
               /\ IsMap(h, val)
            THEN MergeWithoutOverride(h, h[dst].m[normalK].a, val.a)
            ELSE {HeapPut(h, dst, normalK, val)}

\* one iteration of the loop body of MergeWithoutOverride, for the source key k
MergeWithoutOverrideEntry(h, dst, src, k) ==
    LET val == h[src].m[k]
        normalK == NormalKey(k)
    IN IF normalK = <<>> THEN {h}
       ELSE IF normalK \in DOMAIN h[dst].m
            THEN IF IsMap(h, h[dst].m[normalK]) /\ IsMap(h, val)
                 THEN MergeWithoutOverride(h, h[dst].m[normalK].a, val.a)
                 ELSE {h}
            ELSE {HeapPut(h, dst, normalK, val)}

MergeWithoutOverrideRange(h, dst, src, todo, done) ==
    IF todo = {} THEN {h}
    ELSE UNION {
           UNION {
             LET created == (DOMAIN h2[src].m) \ (todo \cup done)
             IN UNION { MergeWithoutOverrideRange(h2, dst, src, (todo \ {k}) \cup vis,
                                                  done \cup {k} \cup (created \ vis))
                        : vis \in SUBSET created }
             : h2 \in MergeWithoutOverrideEntry(h, dst, src, k) }
           : k \in todo }

MergeWithoutOverride(h, dst, src) ==
    MergeWithoutOverrideRange(h, dst, src, DOMAIN h[src].m, {})

\* LowercaseKeys: rename in place, then recurse into a nested map[string]any.
\* A key deleted before the range reaches it is not produced; producing a
\* key the loop itself created finds it normalised already and its value
\* lower-cased, so only the order of the original keys matters.
RECURSIVE LowercaseKeys(_, _)
RECURSIVE LowercaseKeysRange(_, _, _)

LowercaseKeysEntry(h, m, k) ==
    IF k \notin DOMAIN h[m].m THEN {h}
    ELSE LET v == h[m].m[k]
             normalK == NormalKey(k)
             h1 == IF normalK # k THEN HeapPut(HeapDelete(h, m, k), m, normalK, v) ELSE h
         IN IF IsMap(h1, v) THEN LowercaseKeys(h1, v.a) ELSE {h1}

LowercaseKeysRange(h, m, todo) ==
    IF todo = {} THEN {h}
    ELSE UNION { UNION { LowercaseKeysRange(h2, m, todo \ {k})
                         : h2 \in LowercaseKeysEntry(h, m, k) }
                 : k \in todo }

LowercaseKeys(h, m) == LowercaseKeysRange(h, m, DOMAIN h[m].m)

(***************************************************************************)
(* internal/maps: Unbind.  A struct value is a sequence of exported fields *)
(* [name, tag, v]; v is a scalar, nil, or a nested struct value.           *)
(***************************************************************************)
TStruct(fs) == [t |-> "struct", f |-> fs]

\* a struct field with its declaration: name, json tag and value; an
\* embedded field is anonymous, a lower-case one is not exported
Field(name, tag, v) == [name |-> name, tag |-> tag, anon |-> FALSE, exp |-> TRUE, v |-> v]
Embedded(name, v) == [name |-> name, tag |-> <<>>, anon |-> TRUE, exp |-> TRUE, v |-> v]
\* a pointer; the element of a nil one is the zero value it would point to
Ptr(v) == [t |-> "ptr", nil |-> FALSE, v |-> v]
NilPtr(zero) == [t |-> "ptr", nil |-> TRUE, v |-> zero]

\* parts[0] of strings.Split(jsonTag, ",")
RECURSIVE TagName(_)
TagName(tag) ==
    IF tag = <<>> \/ Head(tag) = "," THEN <<>> ELSE <<Head(tag)>> \o TagName(Tail(tag))

\* the tag names a key: it is neither empty nor "-"
TagNames(tag) == TagName(tag) # <<>> /\ TagName(tag) # <<"-">>

RECURSIVE getAnyFromValue(_)
RECURSIVE setMapFromStructRecursive(_, _, _)

\* the fields in declaration order; a later field of the same key overwrites;
\* the fields of an embedded struct are written to the same map
setMapFromStructRecursive(fs, i, m) ==
    IF i > Len(fs) THEN m
    ELSE LET sf == fs[i]
             fv == IF sf.anon /\ sf.v.t = "ptr" THEN sf.v.v ELSE sf.v
             key == IF TagNames(sf.tag) THEN TagName(sf.tag) ELSE sf.name
         IN IF ~sf.exp THEN setMapFromStructRecursive(fs, i + 1, m)
            ELSE IF sf.anon /\ sf.v.t = "ptr" /\ sf.v.nil
                 THEN setMapFromStructRecursive(fs, i + 1, m)
            ELSE IF sf.anon /\ fv.t = "struct"
                 THEN setMapFromStructRecursive(fs, i + 1,
                          setMapFromStructRecursive(fv.f, 1, m))
            ELSE setMapFromStructRecursive(fs, i + 1, Put(m, key, getAnyFromValue(fv)))

getAnyFromValue(v) ==
    IF v.t = "ptr"
    THEN IF v.nil THEN Nil
         ELSE IF v.v.t = "struct" THEN TMap(setMapFromStructRecursive(v.v.f, 1, EmptyMap))
         ELSE v.v
    ELSE IF v.t = "struct" THEN TMap(setMapFromStructRecursive(v.f, 1, EmptyMap))
    ELSE v

\* Unbind(src, dest) for a non-nil pointer to a struct and an empty dest
Unbind(src) == TMap(setMapFromStructRecursive(src.f, 1, EmptyMap))

\* the error Unbind returns for an argument: nil, a nil pointer, or what is
\* no struct once the pointers are followed
UnbindErr(arg) ==
    IF arg.k \in {"nil", "nilptr"} THEN "ErrSrcIsNil"
    ELSE IF arg.k \in {"struct", "structptr"} THEN ""
    ELSE "ErrSrcMustBeStruct"

(***************************************************************************)
(* Numbers for Bind.  A 64-bit value does not fit the integers of the      *)
(* model checker, so an integer is a sign and a magnitude in decimal        *)
(* digits, most significant first, without leading zeros (<<0>> is zero);   *)
(* the comparisons of the code are comparisons of such numbers.            *)
(***************************************************************************)
Num(neg, d) == [neg |-> neg, d |-> d]

RECURSIVE StripZeros(_)
StripZeros(d) == IF Len(d) > 1 /\ Head(d) = 0 THEN StripZeros(Tail(d)) ELSE d

RECURSIVE LexLess(_, _)
LexLess(a, b) ==
    a # <<>> /\ (Head(a) < Head(b) \/ (Head(a) = Head(b) /\ LexLess(Tail(a), Tail(b))))

MagLess(a, b) == Len(a) < Len(b) \/ (Len(a) = Len(b) /\ LexLess(a, b))

\* x < y and x <= y
NumLess(x, y) ==
    IF x.neg # y.neg THEN x.neg
    ELSE IF x.neg THEN MagLess(y.d, x.d) ELSE MagLess(x.d, y.d)
NumLeq(x, y) == ~NumLess(y, x)

\* the limits of package math
MaxInt8 == Num(FALSE, <<1, 2, 7>>)
MinInt8 == Num(TRUE, <<1, 2, 8>>)
MaxInt16 == Num(FALSE, <<3, 2, 7, 6, 7>>)
MinInt16 == Num(TRUE, <<3, 2, 7, 6, 8>>)
MaxInt32 == Num(FALSE, <<2, 1, 4, 7, 4, 8, 3, 6, 4, 7>>)
MinInt32 == Num(TRUE, <<2, 1, 4, 7, 4, 8, 3, 6, 4, 8>>)
MaxInt64 == Num(FALSE, <<9, 2, 2, 3, 3, 7, 2, 0, 3, 6, 8, 5, 4, 7, 7, 5, 8, 0, 7>>)
MinInt64 == Num(TRUE, <<9, 2, 2, 3, 3, 7, 2, 0, 3, 6, 8, 5, 4, 7, 7, 5, 8, 0, 8>>)
MaxUint8 == Num(FALSE, <<2, 5, 5>>)
MaxUint16 == Num(FALSE, <<6, 5, 5, 3, 5>>)
MaxUint32 == Num(FALSE, <<4, 2, 9, 4, 9, 6, 7, 2, 9, 5>>)
MaxUint64 == Num(FALSE, <<1, 8, 4, 4, 6, 7, 4, 4, 0, 7, 3, 7, 0, 9, 5, 5, 1, 6, 1, 5>>)
\* 2^53 and 2^24: the integers up to them are exact in a float64, a float32
MaxExact64 == Num(FALSE, <<9, 0, 0, 7, 1, 9, 9, 2, 5, 4, 7, 4, 0, 9, 9, 2>>)
MaxExact32 == Num(FALSE, <<1, 6, 7, 7, 7, 2, 1, 6>>)

(***************************************************************************)
(* Typed values, as an interface value or a reflect.Value holds them.      *)
(***************************************************************************)
IntKinds == {"int", "int8", "int16", "int32", "int64"}
UintKinds == {"uint", "uint8", "uint16", "uint32", "uint64"}
FloatKinds == {"float32", "float64"}

\* an integer of a signed or unsigned kind
IntOf(k, n) == Val([k |-> k, n |-> n])
\* a float: its integer part (with the sign) and the digits after the point
Float(k, n, frac) == Val([k |-> k, n |-> n, frac |-> frac])
\* a float the conversion had to round: n is then only near the value
Rounded(k, n) == Val([k |-> k, n |-> n, frac |-> <<>>, rounded |-> TRUE])
String(s) == Val([k |-> "string", s |-> s])
Bool(b) == Val([k |-> "bool", b |-> b])
\* the string fmt.Sprintf("%v", v) makes of a value that is no string
Sprintf(v) == Val([k |-> "string", fmtOf |-> v])

\* reflect.Type.Bits of an integer kind, on a 64-bit platform
Bits(k) ==
    CASE k \in {"int8", "uint8"} -> 8
      [] k \in {"int16", "uint16"} -> 16
      [] k \in {"int32", "uint32"} -> 32
      [] OTHER -> 64

\* reflect.Zero of the type of a value
RECURSIVE ZeroOf(_)
RECURSIVE ZeroFields(_)
ZeroFields(fs) ==
    IF fs = <<>> THEN <<>>
    ELSE <<[Head(fs) EXCEPT !.v = ZeroOf(@)]>> \o ZeroFields(Tail(fs))
ZeroOf(v) ==
    IF v.t = "struct" THEN TStruct(ZeroFields(v.f))
    ELSE IF v.t = "ptr" THEN NilPtr(ZeroOf(v.v))
    ELSE IF v.v.k \in IntKinds \cup UintKinds THEN IntOf(v.v.k, Num(FALSE, <<0>>))
    ELSE IF v.v.k \in FloatKinds THEN Float(v.v.k, Num(FALSE, <<0>>), <<>>)
    ELSE IF v.v.k = "bool" THEN Bool(FALSE)
    ELSE String(<<>>)

(***************************************************************************)
(* Errors: the sentinel, what the message names (a kind, a value) and the  *)
(* fields Bind and setValue wrapped it with, outermost first.              *)
(***************************************************************************)
NoNum == Num(FALSE, <<>>)
NoErr == [e |-> "", kind |-> "", val |-> NoNum, fields |-> <<>>]
Err(e) == [NoErr EXCEPT !.e = e]
ErrOf(e, kind, val) == [NoErr EXCEPT !.e = e, !.kind = kind, !.val = val]
Wrapped(name, err) == [err EXCEPT !.fields = <<name>> \o @]

\* the result of a conversion: a value or an error
Ok(v) == [v |-> v, err |-> NoErr]
Fail(err) == [v |-> NoNum, err |-> err]

(***************************************************************************)
(* strconv, for base 10 and 64 bits.                                       *)
(***************************************************************************)
Digit(c) ==
    CASE c = "0" -> 0 [] c = "1" -> 1 [] c = "2" -> 2 [] c = "3" -> 3 [] c = "4" -> 4
      [] c = "5" -> 5 [] c = "6" -> 6 [] c = "7" -> 7 [] c = "8" -> 8 [] c = "9" -> 9
      [] OTHER -> -1

DigitsOf(s) == [i \in 1..Len(s) |-> Digit(s[i])]

\* the longest prefix of decimal digits
RECURSIVE GoodPrefix(_)
GoodPrefix(s) ==
    IF s = <<>> \/ Digit(Head(s)) < 0 THEN <<>> ELSE <<Head(s)>> \o GoodPrefix(Tail(s))

\* strconv.ParseUint(s, 10, 64): the characters are read in order, and the
\* first bad character or the first overflow ends it
ParseUint(s) ==
    LET good == GoodPrefix(s)
        mag == StripZeros(DigitsOf(good))
    IN IF s = <<>> THEN Fail(Err("strconv.ErrSyntax"))
       ELSE IF good # <<>> /\ MagLess(MaxUint64.d, mag) THEN Fail(Err("strconv.ErrRange"))
       ELSE IF Len(good) < Len(s) THEN Fail(Err("strconv.ErrSyntax"))
       ELSE Ok(Num(FALSE, mag))

\* strconv.ParseInt(s, 10, 64)
ParseInt(s) ==
    LET signed == s # <<>> /\ Head(s) \in {"+", "-"}
        neg == s # <<>> /\ Head(s) = "-"
        un == ParseUint(IF signed THEN Tail(s) ELSE s)
    IN IF s = <<>> THEN Fail(Err("strconv.ErrSyntax"))
       ELSE IF un.err.e = "strconv.ErrSyntax" THEN un
       ELSE IF un.err.e = "strconv.ErrRange" THEN un
       ELSE IF ~neg /\ MagLess(MaxInt64.d, un.v.d) THEN Fail(Err("strconv.ErrRange"))
       ELSE IF neg /\ MagLess(MinInt64.d, un.v.d) THEN Fail(Err("strconv.ErrRange"))
       ELSE Ok(Num(neg /\ un.v.d # <<0>>, un.v.d))

\* strconv.ParseBool
ParseBool(s) ==
    IF s \in {<<"1">>, <<"t">>, <<"T">>, <<"t", "r", "u", "e">>, <<"T", "R", "U", "E">>,
              <<"T", "r", "u", "e">>} THEN [v |-> TRUE, err |-> NoErr]
    ELSE IF s \in {<<"0">>, <<"f">>, <<"F">>, <<"f", "a", "l", "s", "e">>,
                   <<"F", "A", "L", "S", "E">>, <<"F", "a", "l", "s", "e">>}
    THEN [v |-> FALSE, err |-> NoErr]
    ELSE [v |-> FALSE, err |-> Err("strconv.ErrSyntax")]

\* strconv.ParseFloat(s, 64) for strings of digits, a sign and a point: an
\* optional sign, digits, and optionally a point and digits
ParseFloat(s) ==
    LET signed == s # <<>> /\ Head(s) \in {"+", "-"}
        neg == s # <<>> /\ Head(s) = "-"
        body == IF signed THEN Tail(s) ELSE s
        whole == GoodPrefix(body)
        rest == SubSeq(body, Len(whole) + 1, Len(body))
        pointed == rest # <<>> /\ Head(rest) = "."
        after == IF pointed THEN Tail(rest) ELSE <<>>
        n == Num(neg, IF whole = <<>> THEN <<0>> ELSE StripZeros(DigitsOf(whole)))
    IN IF (rest # <<>> /\ ~pointed) \/ GoodPrefix(after) # after \/ (whole = <<>> /\ after = <<>>)
       THEN [v |-> Float("float64", NoNum, <<>>), err |-> Err("strconv.ErrSyntax")]
       ELSE IF MagLess(MaxExact64.d, n.d) \/ Len(after) > 1
            THEN [v |-> Rounded("float64", n), err |-> NoErr]
       ELSE [v |-> Float("float64", n, IF after = <<"0">> THEN <<>> ELSE DigitsOf(after)),
             err |-> NoErr]

(***************************************************************************)
(* The conversions of Bind.  Each gives the set of its possible results:   *)
(* one, except where Go leaves the result to the platform.                 *)
(***************************************************************************)
\* the integer part of a float, truncated toward zero
Trunc(x) == Num(x.n.neg /\ x.n.d # <<0>>, x.n.d)

\* int64(f): the truncation when it fits; otherwise the result depends on
\* the platform (amd64 gives the minimum, arm64 the nearest limit)
FloatToInt64(x) ==
    IF NumLeq(MinInt64, Trunc(x)) /\ NumLeq(Trunc(x), MaxInt64) THEN {Trunc(x)}
    ELSE {MinInt64, IF x.n.neg THEN MinInt64 ELSE MaxInt64}

\* uint64(f) of a float that is not negative: likewise (amd64 gives a
\* wrapped value, shown as zero for 2^64 and above; arm64 the maximum)
FloatToUint64(x) ==
    IF NumLeq(Trunc(x), MaxUint64) THEN {Trunc(x)}
    ELSE {Num(FALSE, <<0>>), MaxUint64}

\* the float is below zero
Negative(x) == x.n.neg

toBool(val) ==
    IF val.t # "val" THEN [v |-> FALSE, err |-> Err("ErrCannotConvertToBool")]
    ELSE LET x == val.v
         IN IF x.k = "bool" THEN [v |-> x.b, err |-> NoErr]
            ELSE IF x.k = "string" THEN ParseBool(x.s)
            ELSE IF x.k \in FloatKinds
                 THEN [v |-> x.n.d # <<0>> \/ x.frac # <<>>, err |-> NoErr]
            ELSE [v |-> x.n.d # <<0>>, err |-> NoErr]

\* the decimal digits of fmt.Sprintf("%v", n) for an integer
DigitChar(d) ==
    CASE d = 0 -> "0" [] d = 1 -> "1" [] d = 2 -> "2" [] d = 3 -> "3" [] d = 4 -> "4"
      [] d = 5 -> "5" [] d = 6 -> "6" [] d = 7 -> "7" [] d = 8 -> "8" [] OTHER -> "9"

toString(val) ==
    IF val.t = "val" /\ val.v.k = "string" THEN val
    ELSE IF val.t = "val" /\ val.v.k \in IntKinds \cup UintKinds
         THEN String((IF val.v.n.neg THEN <<"-">> ELSE <<>>)
                     \o [i \in 1..Len(val.v.n.d) |-> DigitChar(val.v.n.d[i])])
    ELSE IF val.t = "val" /\ val.v.k = "bool"
         THEN String(IF val.v.b THEN <<"t", "r", "u", "e">> ELSE <<"f", "a", "l", "s", "e">>)
    ELSE Sprintf(val)

toInt64(val) ==
    IF val.t # "val" THEN {Fail(Err("ErrCannotConvertToInt64"))}
    ELSE LET x == val.v
         IN IF x.k \in IntKinds THEN {Ok(x.n)}
            ELSE IF x.k \in {"uint", "uint64"}
                 THEN IF NumLess(MaxInt64, x.n)
                      THEN {Fail(ErrOf("ErrUint64Overflow", "", x.n))}
                      ELSE {Ok(x.n)}
            ELSE IF x.k \in UintKinds THEN {Ok(x.n)}
            ELSE IF x.k \in FloatKinds THEN {Ok(n) : n \in FloatToInt64(x)}
            ELSE IF x.k = "string" THEN {ParseInt(x.s)}
            ELSE {Fail(Err("ErrCannotConvertToInt64"))}

\* the error of toUint64 for a negative value of a signed kind
NegativeError(k) ==
    CASE k = "int" -> "ErrNegativeIntCannotConvert"
      [] k = "int8" -> "ErrNegativeInt8CannotConvert"
      [] k = "int16" -> "ErrNegativeInt16CannotConvert"
      [] k = "int32" -> "ErrNegativeInt32CannotConvert"
      [] k = "int64" -> "ErrNegativeInt64CannotConvert"
      [] OTHER -> "ErrNegativeFloatCannotConvert"

\* toUint64 has no case for float32: it falls to the default
toUint64(val) ==
    IF val.t # "val" THEN {Fail(Err("ErrCannotConvertToUint64"))}
    ELSE LET x == val.v
         IN IF x.k \in UintKinds THEN {Ok(x.n)}
            ELSE IF x.k \in IntKinds
                 THEN IF x.n.neg THEN {Fail(ErrOf(NegativeError(x.k), "", x.n))}
                      ELSE {Ok(x.n)}
            ELSE IF x.k = "float64"
                 THEN IF Negative(x) THEN {Fail(ErrOf(NegativeError(x.k), "", Trunc(x)))}
                      ELSE {Ok(n) : n \in FloatToUint64(x)}
            ELSE IF x.k = "string" THEN {ParseUint(x.s)}
            ELSE {Fail(Err("ErrCannotConvertToUint64"))}

\* toFloat64: exact for a float and for an integer up to 2^53
toFloat64(val) ==
    IF val.t # "val" THEN [v |-> Float("float64", NoNum, <<>>), err |-> Err("ErrCannotConvertToFloat64")]
    ELSE LET x == val.v
         IN IF x.k \in FloatKinds THEN [v |-> Val([x EXCEPT !.k = "float64"]), err |-> NoErr]
            ELSE IF x.k \in IntKinds \cup UintKinds
                 THEN [v |-> IF MagLess(MaxExact64.d, x.n.d) THEN Rounded("float64", x.n)
                             ELSE Float("float64", x.n, <<>>),
                       err |-> NoErr]
            ELSE IF x.k = "string" THEN ParseFloat(x.s)
            ELSE [v |-> Float("float64", NoNum, <<>>), err |-> Err("ErrCannotConvertToFloat64")]

withinIntRange(intVal, bits) ==
    CASE bits = 8 -> NumLeq(MinInt8, intVal) /\ NumLeq(intVal, MaxInt8)
      [] bits = 16 -> NumLeq(MinInt16, intVal) /\ NumLeq(intVal, MaxInt16)
      [] bits = 32 -> NumLeq(MinInt32, intVal) /\ NumLeq(intVal, MaxInt32)
      [] OTHER -> TRUE

withinUintRange(unt, bits) ==
    CASE bits = 8 -> NumLeq(unt, MaxUint8)
      [] bits = 16 -> NumLeq(unt, MaxUint16)
      [] bits = 32 -> NumLeq(unt, MaxUint32)
      [] OTHER -> TRUE

\* reflect.Value.SetFloat on a field of kind k: a float32 field rounds
SetFloat(k, f) ==
    IF k = "float64" \/ "rounded" \in DOMAIN f.v THEN Val([f.v EXCEPT !.k = k])
    ELSE IF MagLess(MaxExact32.d, f.v.n.d) \/ f.v.frac \notin {<<>>, <<5>>}
         THEN Rounded(k, f.v.n)
    ELSE Val([f.v EXCEPT !.k = k])

\* setBasicKind(dst, v) for dst a bool, string, integer or float: the set of
\* [dst, err] it may leave
setBasicKind(dst, v) ==
    LET k == dst.v.k
    IN IF k = "bool"
       THEN LET b == toBool(v)
            IN {[dst |-> IF b.err = NoErr THEN Bool(b.v) ELSE dst, err |-> b.err]}
       ELSE IF k = "string" THEN {[dst |-> toString(v), err |-> NoErr]}
       ELSE IF k \in IntKinds
            THEN {IF i.err # NoErr THEN [dst |-> dst, err |-> i.err]
                  ELSE IF ~withinIntRange(i.v, Bits(k))
                       THEN [dst |-> dst, err |-> ErrOf("ErrIntegerOverflow", k, i.v)]
                  ELSE [dst |-> IntOf(k, i.v), err |-> NoErr] : i \in toInt64(v)}
       ELSE IF k \in UintKinds
            THEN {IF u.err # NoErr THEN [dst |-> dst, err |-> u.err]
                  ELSE IF ~withinUintRange(u.v, Bits(k))
                       THEN [dst |-> dst, err |-> ErrOf("ErrUnsignedIntegerOverflow", k, u.v)]
                  ELSE [dst |-> IntOf(k, u.v), err |-> NoErr] : u \in toUint64(v)}
       ELSE LET f == toFloat64(v)
            IN {[dst |-> IF f.err = NoErr THEN SetFloat(k, f.v) ELSE dst, err |-> f.err]}

(***************************************************************************)
(* buildStructFieldMap.  The index paths are Go slices: a header (array,   *)
(* length, capacity) over an array that append writes in place when the    *)
(* capacity allows, so that paths made from the same parent slice may      *)
(* share their array.                                                      *)
(***************************************************************************)
\* the capacity growslice gives a small []int that is full
GrowCap(cap) == IF cap = 0 THEN 1 ELSE cap + cap

\* the elements of a new array beyond the length
RECURSIVE Spare(_)
Spare(n) == IF n = 0 THEN <<>> ELSE <<0>> \o Spare(n - 1)

\* []int{}
EmptySlice == [arr |-> 0, len |-> 0, cap |-> 0]

\* append(s, x) among the arrays arrs: the new arrays and the new header
appendInt(arrs, s, x) ==
    IF s.len < s.cap
    THEN [arrs |-> [arrs EXCEPT ![s.arr][s.len + 1] = x],
          s |-> [s EXCEPT !.len = @ + 1]]
    ELSE LET c == GrowCap(s.cap)
             old == IF s.len = 0 THEN <<>> ELSE SubSeq(arrs[s.arr], 1, s.len)
             new == old \o <<x>> \o Spare(c - s.len - 1)
         IN [arrs |-> Append(arrs, new),
             s |-> [arr |-> Len(arrs) + 1, len |-> s.len + 1, cap |-> c]]

\* fieldInfo, without the Index nothing reads
fieldInfo(sf, tag, path) == [Name |-> sf.name, Tag |-> tag, Path |-> path]

\* the fields in declaration order, from field i on; acc holds the map out
\* and the arrays of the paths
RECURSIVE buildStructFieldMapRecursive(_, _, _, _)
buildStructFieldMapRecursive(fs, i, indexPath, acc) ==
    IF i > Len(fs) THEN acc
    ELSE LET sf == fs[i]
             ap == appendInt(acc.arrs, indexPath, i)
             currentPath == ap.s
             fieldType == IF sf.v.t = "ptr" THEN sf.v.v ELSE sf.v
             key == ToLower(sf.name)
             tagged == IF TagNames(sf.tag)
                       THEN Put(acc.out, TagName(sf.tag), fieldInfo(sf, sf.tag, currentPath))
                       ELSE acc.out
             named == IF key \in DOMAIN tagged THEN tagged
                      ELSE Put(tagged, key, fieldInfo(sf, <<>>, currentPath))
         IN IF ~sf.exp THEN buildStructFieldMapRecursive(fs, i + 1, indexPath, acc)
            ELSE IF sf.anon /\ fieldType.t = "struct"
                 THEN buildStructFieldMapRecursive(fs, i + 1, indexPath,
                          buildStructFieldMapRecursive(fieldType.f, 1, currentPath,
                                                       [acc EXCEPT !.arrs = ap.arrs]))
            ELSE buildStructFieldMapRecursive(fs, i + 1, indexPath,
                                              [out |-> named, arrs |-> ap.arrs])

\* buildStructFieldMap(t): every Path read as getFieldByPath will read it,
\* after the last append
buildStructFieldMap(t) ==
    LET r == buildStructFieldMapRecursive(t.f, 1, EmptySlice, [out |-> EmptyMap, arrs |-> <<>>])
    IN [k \in DOMAIN r.out |->
           [Name |-> r.out[k].Name, Tag |-> r.out[k].Tag,
            Path |-> SubSeq(r.arrs[r.out[k].Path.arr], 1, r.out[k].Path.len)]]

(***************************************************************************)
(* setValue and Bind.  A range over a map visits its keys in any order, so *)
(* each gives the set of the [dst, err] it may leave.                      *)
(***************************************************************************)
RECURSIVE setValue(_, _)
RECURSIVE SetByPath(_, _, _)
RECURSIVE BindRange(_, _, _, _, _)

\* the field a key of the source names: by the key itself and, inside a
\* nested struct only, by the lower-cased key
FieldFor(fieldMap, key, nested) ==
    IF key \in DOMAIN fieldMap THEN {fieldMap[key]}
    ELSE IF nested /\ ToLower(key) \in DOMAIN fieldMap THEN {fieldMap[ToLower(key)]}
    ELSE {}

\* the loop, going on to the remaining keys after an error and returning
\* the first one
BindRangeContinuing(rv, fieldMap, m, todo, nested) ==
    IF todo = {} THEN {[dst |-> rv, err |-> NoErr]}
    ELSE UNION {
           IF FieldFor(fieldMap, k, nested) = {}
           THEN BindRange(rv, fieldMap, m, todo \ {k}, nested)
           ELSE LET fi == CHOOSE f \in FieldFor(fieldMap, k, nested) : TRUE
                IN UNION { IF r.err # NoErr
                           THEN {[dst |-> q.dst, err |-> Wrapped(fi.Name, r.err)]
                                 : q \in BindRange(r.dst, fieldMap, m, todo \ {k}, nested)}
                           ELSE BindRange(r.dst, fieldMap, m, todo \ {k}, nested)
                           : r \in SetByPath(rv, fi.Path, m[k]) }
           : k \in todo }

\* the loop over the keys of m not yet visited, ended by the first error
BindRange(rv, fieldMap, m, todo, nested) ==
    IF todo = {} THEN {[dst |-> rv, err |-> NoErr]}
    ELSE UNION {
           IF FieldFor(fieldMap, k, nested) = {}
           THEN BindRange(rv, fieldMap, m, todo \ {k}, nested)
           ELSE LET fi == CHOOSE f \in FieldFor(fieldMap, k, nested) : TRUE
                IN UNION { IF r.err # NoErr
                           THEN {[dst |-> r.dst, err |-> Wrapped(fi.Name, r.err)]}
                           ELSE BindRange(r.dst, fieldMap, m, todo \ {k}, nested)
                           : r \in SetByPath(rv, fi.Path, m[k]) }
           : k \in todo }

\* getFieldByPath(rv, path) and setValue on the field it gives: a nil pointer
\* on the way is allocated, and stays so
SetByPath(rv, path, v) ==
    LET i == Head(path)
        current == rv.f[i].v
        elem == IF current.t = "ptr" THEN current.v ELSE current
        rs == IF Len(path) = 1 THEN setValue(elem, v) ELSE SetByPath(elem, Tail(path), v)
    IN {[dst |-> [rv EXCEPT !.f[i].v = IF current.t = "ptr" THEN Ptr(r.dst) ELSE r.dst],
         err |-> r.err] : r \in rs}

\* setValue(dst, v) for dst a pointer, a struct or a basic kind
setValue(dst, v) ==
    IF dst.t = "ptr"
    THEN {[dst |-> Ptr(r.dst), err |-> r.err] : r \in setValue(dst.v, v)}
    ELSE IF v = Nil THEN {[dst |-> ZeroOf(dst), err |-> NoErr]}
    ELSE IF dst.t = "struct"
         THEN IF v.t = "map"
              THEN BindRange(dst, buildStructFieldMap(dst), v.m, DOMAIN v.m, TRUE)
              ELSE {[dst |-> dst, err |-> Err("ErrCannotSetStructFrom")]}
    ELSE setBasicKind(dst, v)

\* the error Bind returns for a dest that is nil, no pointer or a nil
\* pointer, or a pointer to what is no struct
BindErr(dest) ==
    IF dest.k = "nil" THEN "ErrDestIsNil"
    ELSE IF dest.k \in {"struct", "scalar", "nilptr"} THEN "ErrDestMustBePointer"
    ELSE IF dest.k = "scalarptr" THEN "ErrDestMustPointToStruct"
    ELSE ""

\* Bind(src, dest): the struct dest points to afterwards, and the error
Bind(src, dest) ==
    IF BindErr(dest) # "" THEN {[dst |-> dest, err |-> Err(BindErr(dest))]}
    ELSE {[dst |-> [dest EXCEPT !.s = r.dst], err |-> r.err]
          : r \in BindRange(dest.s, buildStructFieldMap(dest.s), src.m, DOMAIN src.m, FALSE)}

(***************************************************************************)
(* internal/env: IsUnsafeVar, BuildNestedMap, ParseVariables.  The data    *)
(* map is built from nothing and shared with nobody, so it is a tree.      *)
(***************************************************************************)
\* strings.HasPrefix, strings.TrimPrefix
HasPrefix(s, prefix) == Len(prefix) <= Len(s) /\ SubSeq(s, 1, Len(prefix)) = prefix
TrimPrefix(s, prefix) == IF HasPrefix(s, prefix) THEN SubSeq(s, Len(prefix) + 1, Len(s)) ELSE s

\* strings.ReplaceAll: an empty old matches before every character and at
\* the end
RECURSIVE ReplaceAll(_, _, _)
ReplaceAll(s, old, new) ==
    IF old = <<>>
    THEN IF s = <<>> THEN new ELSE new \o <<Head(s)>> \o ReplaceAll(Tail(s), old, new)
    ELSE IF s = <<>> THEN <<>>
    ELSE IF HasPrefix(s, old) THEN new \o ReplaceAll(TrimPrefix(s, old), old, new)
    ELSE <<Head(s)>> \o ReplaceAll(Tail(s), old, new)

\* strings.Split(s, sep) for a separator that is not empty
RECURSIVE SplitAt(_, _, _, _)
SplitAt(s, sep, cur, acc) ==
    IF s = <<>> THEN Append(acc, cur)
    ELSE IF HasPrefix(s, sep) THEN SplitAt(TrimPrefix(s, sep), sep, <<>>, Append(acc, cur))
    ELSE SplitAt(Tail(s), sep, Append(cur, Head(s)), acc)

objSep == <<":">>
envSep == <<"_">>

unsafeEnvVars ==
    { <<"P", "A", "T", "H">>,
      <<"H", "O", "M", "E">>,
      <<"U", "S", "E", "R">>,
      <<"U", "S", "E", "R", "N", "A", "M", "E">>,
      <<"L", "O", "G", "N", "A", "M", "E">>,
      <<"S", "H", "E", "L", "L">>,
      <<"P", "W", "D">>,
      <<"O", "L", "D", "P", "W", "D">>,
      <<"M", "A", "I", "L">>,
      <<"T", "E", "R", "M">>,
      <<"L", "A", "N", "G">>,
      <<"L", "C", "_", "A", "L", "L">>,
      <<"L", "C", "_", "C", "T", "Y", "P", "E">>,
      <<"C", "O", "L", "O", "R", "T", "E", "R", "M">>,
      <<"T", "M", "P", "D", "I", "R">>,
      <<"T", "M", "P">>,
      <<"T", "E", "M", "P">>,
      <<"S", "U", "D", "O", "_", "U", "S", "E", "R">>,
      <<"S", "U", "D", "O", "_", "U", "I", "D">>,
      <<"S", "U", "D", "O", "_", "G", "I", "D">>,
      <<"S", "S", "H", "_", "A", "U", "T", "H", "_", "S", "O", "C", "K">>,
      <<"S", "S", "H", "_", "A", "G", "E", "N", "T", "_", "P", "I", "D">>,
      <<"S", "S", "H", "_", "C", "L", "I", "E", "N", "T">>,
      <<"S", "S", "H", "_", "C", "O", "N", "N", "E", "C", "T", "I", "O", "N">>,
      <<"S", "S", "H", "_", "T", "T", "Y">>,
      <<"D", "I", "S", "P", "L", "A", "Y">>,
      <<"X", "A", "U", "T", "H", "O", "R", "I", "T", "Y">>,
      <<"W", "A", "Y", "L", "A", "N", "D", "_", "D", "I", "S", "P", "L", "A", "Y">>,
      <<"H", "O", "S", "T", "N", "A", "M", "E">>,
      <<"H", "O", "S", "T">>,
      <<"C", "O", "M", "P", "U", "T", "E", "R", "N", "A", "M", "E">>,
      <<"S", "E", "S", "S", "I", "O", "N", "_", "M", "A", "N", "A", "G", "E", "R">>,
      <<"Z", "S", "H">>,
      <<"B", "A", "S", "H">>,
      <<"P", "R", "O", "M", "P", "T">>,
      <<"P", "S", "1">>,
      <<"P", "S", "2">>,
      <<"E", "D", "I", "T", "O", "R">>,
      <<"V", "I", "S", "U", "A", "L">>,
      <<"P", "A", "G", "E", "R">>,
      <<"G", "I", "T", "H", "U", "B", "_", "A", "C", "T", "I", "O", "N">>,
      <<"G", "I", "T", "H", "U", "B", "_", "T", "O", "K", "E", "N">>,
      <<"C", "I">> }

IsUnsafeVar(key) == ToUpper(key) \in unsafeEnvVars

\* the loop of BuildNestedMap over the parts of the key
RECURSIVE BuildNestedParts(_, _, _)
BuildNestedParts(current, parts, value) ==
    LET part == Head(parts)
        nested == IF part \in DOMAIN current.m /\ current.m[part].t = "map"
                  THEN current.m[part] ELSE TMap(EmptyMap)
    IN IF Len(parts) = 1 THEN TMap(Put(current.m, part, value))
       ELSE TMap(Put(current.m, part, BuildNestedParts(nested, Tail(parts), value)))

BuildNestedMap(data, key, value, separator) ==
    IF separator = <<>> THEN TMap(Put(data.m, key, value))
    ELSE BuildNestedParts(data, SplitAt(key, separator, <<>>, <<>>), value)

\* what ParseVariables stores for one variable: under normalizedKey when
\* normalizeKey is set, and under key in any case
Emit(data, normalizedKey, key, value, sep, normalizeKey) ==
    LET replaced == ReplaceAll(normalizedKey, sep, objSep)
        compact == ReplaceAll(replaced, envSep, <<>>)
        d1 == IF ~normalizeKey THEN data
              ELSE IF sep # <<>> THEN BuildNestedMap(data, compact, value, objSep)
              ELSE TMap(Put(data.m, compact, value))
    IN IF sep # <<>> THEN BuildNestedMap(d1, key, value, sep)
       ELSE TMap(Put(d1.m, key, value))

\* the body of the loop of ParseVariables, pre lower-cased and trimmed
ParseVariablesEntry(data, k, value, pre, sep, normalizeKey) ==
    LET key == ToLower(TrimSpace(k))
    IN IF IsUnsafeVar(key) THEN data
       ELSE IF pre # <<>> /\ ~HasPrefix(key, pre) THEN data
       ELSE Emit(data, IF pre # <<>> THEN TrimPrefix(key, pre) ELSE key, key,
                 value, sep, normalizeKey)

\* the loop over the variables not yet visited, in every order
RECURSIVE ParseVariablesRange(_, _, _, _, _, _)
ParseVariablesRange(data, vars, todo, pre, sep, normalizeKey) ==
    IF todo = {} THEN {data}
    ELSE UNION { ParseVariablesRange(
                     ParseVariablesEntry(data, k, vars[k], pre, sep, normalizeKey),
                     vars, todo \ {k}, pre, sep, normalizeKey)
                 : k \in todo }

ParseVariables(vars, pre, sep, normalizeKey) ==
    ParseVariablesRange(TMap(EmptyMap), vars, DOMAIN vars, ToLower(TrimSpace(pre)),
                        sep, normalizeKey)

(***************************************************************************)
(* The inputs of the callers: keys, values, defaults, providers.           *)
(***************************************************************************)
kA == <<"a">>
kB == <<"b">>
kC == <<"c">>
kUpA == <<"A">>
kUpB == <<"B">>
kUpC == <<"C">>
kBlank == <<" ">>
kAB == <<"a", ".", "b">>
kUpAB == <<" ", "A", ".", "B">>
kABC == <<"a", ".", "b", ".", "c">>

\* keys handed to Set, SetDefault, Get and Find
PathKeys == {<<>>, kA, kB, kAB, kUpAB, kABC, kBlank}

\* values handed to Set and SetDefault: nil, scalars, map and slice literals,
\* with and without nil inside
ArgValues == {Nil, Val(1), Val(2), TMap(kUpB :> Val(1)), TSlice(<<Val(1)>>),
              TMap(kC :> Nil), TSlice(<<Nil>>)}

\* arguments handed to SetDefaults
DefaultsArgs ==
    { [k |-> "nil"],
      [k |-> "scalar"],
      [k |-> "nilptr"],
      [k |-> "scalarptr"],
      [k |-> "map", t |-> TMap(kA :> TMap(kB :> Val(5) @@ kC :> Val(6)))],
      [k |-> "map", t |-> TMap(kUpA :> Val(5) @@ kBlank :> Val(6)
                                @@ kB :> TMap(kUpB :> Val(7)))],
      [k |-> "mapptr", t |-> TMap(kA :> Val(5) @@ kUpA :> TMap(kC :> Val(6)))],
      [k |-> "structptr",
       s |-> TStruct(<< Field(kUpA, kA, TStruct(<<Field(kUpB, <<>>, Val(5))>>)),
                       Field(kUpC, <<>>, Val(6)) >>)] }

\* names of the providers; envProviderName is the one New looks for
envProviderName == "Environment Variables"

MockProvider(name, t) == [name |-> name, fresh |-> FALSE, data |-> t, err |-> FALSE]
FailingProvider(name) == [name |-> name, fresh |-> FALSE, data |-> TMap(EmptyMap), err |-> TRUE]
\* NewEnvProvider(): data is what ParseVariables makes of the process environment
NewEnvProvider(t) == [name |-> envProviderName, fresh |-> TRUE, data |-> t, err |-> FALSE]

\* the environments, provider lists and extension lists a Config is built from
Setups ==
    { [environ |-> TMap(EmptyMap),
       supplied |-> << MockProvider("json", TMap(kA :> TMap(kB :> Val(1)))),
                       MockProvider("dotenv", TMap(kA :> TMap(kB :> Val(2) @@ kC :> Val(3)))) >>,
       exts |-> << [name |-> "ext1", preErr |-> FALSE, postErr |-> FALSE],
                   [name |-> "ext2", preErr |-> FALSE, postErr |-> FALSE] >>],
      [environ |-> TMap(EmptyMap),
       supplied |-> << MockProvider("json", TMap(kA :> Val(2))),
                       MockProvider(envProviderName, TMap(kUpA :> TMap(kB :> Val(1)))) >>,
       exts |-> << >>],
      [environ |-> TMap(kA :> TMap(kB :> Val(9))),
       supplied |-> << MockProvider("json", TMap(kA :> Val(1))),
                       MockProvider("dotenv", TMap(kUpA :> TMap(kUpB :> Val(2)))) >>,
       exts |-> << >>],
      [environ |-> TMap(EmptyMap),
       supplied |-> << MockProvider("json", TMap(kUpA :> Val(1) @@ kA :> Val(2) @@ kBlank :> Val(3))),
                       MockProvider("dotenv", TMap(kB :> Val(1))) >>,
       exts |-> << >>],
      [environ |-> TMap(EmptyMap),
       supplied |-> << MockProvider("json", TMap(kA :> TMap(kB :> Val(1)))),
                       FailingProvider("dotenv"),
                       MockProvider("yaml", TMap(kC :> Val(4))) >>,
       exts |-> << [name |-> "ext1", preErr |-> FALSE, postErr |-> FALSE] >>],
      [environ |-> TMap(EmptyMap),
       supplied |-> << MockProvider("json", TMap(kA :> Val(1))) >>,
       exts |-> << [name |-> "ext1", preErr |-> FALSE, postErr |-> TRUE],
                   [name |-> "ext2", preErr |-> TRUE, postErr |-> FALSE],
                   [name |-> "ext3", preErr |-> FALSE, postErr |-> FALSE] >>],
      [environ |-> TMap(EmptyMap),
       supplied |-> << >>,
       exts |-> << [name |-> "ext1", preErr |-> FALSE, postErr |-> TRUE],
                   [name |-> "ext2", preErr |-> FALSE, postErr |-> FALSE] >>],
      [environ |-> TMap(EmptyMap),
       supplied |-> << MockProvider("json", TMap(kA :> TMap(kB :> Val(1)))) >>,
       exts |-> << >>],
      [environ |-> TMap(kA :> TMap(kB :> Val(9))),
       supplied |-> << MockProvider("json", TMap(kA :> Val(1))),
                       MockProvider("dotenv", TMap(kA :> TMap(kC :> Val(2)))) >>,
       exts |-> << >>] }

(***************************************************************************)
(* The state.                                                              *)
(***************************************************************************)
VARIABLES
    heap,        \* the Go heap: maps and slices by address
    providers,   \* Config.providers; a cached provider holds its map at .out
    extensions,  \* Config.extensions
    mu,          \* Config.mu is write-locked (by the running Load)
    load,        \* the position of the running LoadWithContext, its result
    ret,         \* what the last Get, Find or Values returned to its caller
    op,          \* the last completed call and its arguments
    pre,         \* the mapping, as a tree, right before that call
    steps        \* API calls issued so far

vars == <<heap, providers, extensions, mu, load, ret, op, pre, steps>>

\* Config.values: the map New makes lives in cell 1 for good
values == 1

NoRet == [valid |-> FALSE, v |-> Nil, found |-> FALSE, panic |-> FALSE, err |-> ""]

\* the mapping of the Config, read structurally
Mapping(h) == TreeOf(h, Ref(values))

CachedOuts(ps) == {ps[i].out : i \in {j \in 1..Len(ps) : ~ps[j].fresh}}
Roots(ps, r) == {values} \cup CachedOuts(ps) \cup ValAddrs(r.v)

\* a constructor that adds the default environment provider after the
\* supplied ones
NewEnvLast(supplied, environ) ==
    LET hasEnvProvider == \E i \in 1..Len(supplied) : supplied[i].name = envProviderName
    IN IF ~hasEnvProvider THEN supplied \o <<NewEnvProvider(environ)>> ELSE supplied

\* New: the default environment provider goes first unless one is supplied
New(supplied, environ) ==
    LET hasEnvProvider == \E i \in 1..Len(supplied) : supplied[i].name = envProviderName
    IN IF ~hasEnvProvider THEN <<NewEnvProvider(environ)>> \o supplied ELSE supplied

\* the maps the supplied mock providers hold, made before New is called
RECURSIVE MakeMocks(_, _, _)
MakeMocks(h, ps, i) ==
    IF i > Len(ps) THEN [h |-> h, ps |-> ps]
    ELSE IF ps[i].fresh THEN MakeMocks(h, [ps EXCEPT ![i] = ps[i] @@ [out |-> NoMap]], i + 1)
    ELSE LET r == Build(h, ps[i].data)
         IN MakeMocks(r.h, [ps EXCEPT ![i] = ps[i] @@ [out |-> r.v.a]], i + 1)

\* the error a failing provider returns from Load
ProviderErr(p) == <<"error of", p.name>>

\* LoadWithContext not running: res, who and wraps are what the last one
\* returned (the sentinel, the name in the message, the errors wrapped);
\* trace lists the hooks and providers it called
IdleLoad ==
    [pc |-> "idle", i |-> 0, merged |-> 0, res |-> "none", start |-> Nil, outs |-> <<>>,
     who |-> "", wraps |-> {}, trace |-> <<>>]

Called(l, kind, name) == [l EXCEPT !.trace = Append(@, [k |-> kind, n |-> name])]

Init ==
    \E s \in Setups :
        LET h0 == [a \in Addrs |-> IF a = values THEN MapObj(EmptyMap) ELSE Free]
            r == MakeMocks(h0, New(s.supplied, s.environ), 1)
        IN /\ heap = r.h
           /\ providers = r.ps
           /\ extensions = s.exts
           /\ mu = FALSE
           /\ load = IdleLoad
           /\ ret = NoRet
           /\ op = [name |-> "New", supplied |-> s.supplied]
           /\ pre = TMap(EmptyMap)
           /\ steps = 0

(***************************************************************************)
(* The bodies of the accessors, as functions of the heap.                  *)
(***************************************************************************)
\* a lock that never waits
LockableAnyway(m) == TRUE

\* mu.Lock() and mu.RLock() go through only while no Load holds the lock;
\* every other critical section is a single step of the model
Lockable(m) == ~m

\* Set without the early return on the empty key
SetOnEmptyKeyToo(h, key, value) ==
    LET kp == keyToPathParts(key)
        f == FindNestedMap(h, values, kp.pathParts, TRUE)
    IN IF f.r # NoMap THEN HeapPut(f.h, f.r, kp.finalKey, value) ELSE f.h

\* Set that keeps a value already stored
SetOnKeeping(h, key, value) ==
    IF key = <<>> THEN h
    ELSE LET kp == keyToPathParts(key)
             f == FindNestedMap(h, values, kp.pathParts, TRUE)
         IN IF f.r # NoMap /\ kp.finalKey \notin DOMAIN f.h[f.r].m
            THEN HeapPut(f.h, f.r, kp.finalKey, value)
            ELSE f.h

\* SetDefault without the check that the key is missing
SetDefaultOnOverwriting(h, key, value) ==
    IF key = <<>> THEN h
    ELSE LET kp == keyToPathParts(key)
             f == FindNestedMap(h, values, kp.pathParts, TRUE)
         IN IF f.r # NoMap THEN HeapPut(f.h, f.r, kp.finalKey, value) ELSE f.h

\* Config.Set
SetOn(h, key, value) ==
    IF key = <<>> THEN h
    ELSE LET kp == keyToPathParts(key)
             f == FindNestedMap(h, values, kp.pathParts, TRUE)
         IN IF f.r # NoMap THEN HeapPut(f.h, f.r, kp.finalKey, value) ELSE f.h

\* Config.SetDefault
SetDefaultOn(h, key, value) ==
    IF key = <<>> THEN h
    ELSE LET kp == keyToPathParts(key)
             f == FindNestedMap(h, values, kp.pathParts, TRUE)
         IN IF f.r # NoMap /\ kp.finalKey \notin DOMAIN f.h[f.r].m
            THEN HeapPut(f.h, f.r, kp.finalKey, value)
            ELSE f.h

\* SetDefaults without the check for nil
SetDefaultsOnUnchecked(h, arg) ==
    IF arg.k \in {"map", "mapptr"}
    THEN LET val == Build(h, arg.t)
         IN {[h |-> h2, err |-> ""] : h2 \in MergeWithoutOverride(val.h, values, val.v.a)}
    ELSE IF UnbindErr(arg) # ""
    THEN {[h |-> h, err |-> UnbindErr(arg)]}
    ELSE LET tempValues == Build(h, Unbind(arg.s))
         IN UNION { {[h |-> h2, err |-> ""] : h2 \in MergeWithoutOverride(h1, values, tempValues.v.a)}
                    : h1 \in LowercaseKeys(tempValues.h, tempValues.v.a) }

\* Config.SetDefaults: the heaps it can leave, each with the error returned
SetDefaultsOn(h, arg) ==
    IF arg.k = "nil" THEN {[h |-> h, err |-> "ErrNilValues"]}
    ELSE IF arg.k \in {"map", "mapptr"}
    THEN LET val == Build(h, arg.t)
         IN {[h |-> h2, err |-> ""] : h2 \in MergeWithoutOverride(val.h, values, val.v.a)}
    ELSE IF UnbindErr(arg) # ""
    THEN {[h |-> h, err |-> UnbindErr(arg)]}
    ELSE LET tempValues == Build(h, Unbind(arg.s))
         IN UNION { {[h |-> h2, err |-> ""] : h2 \in MergeWithoutOverride(h1, values, tempValues.v.a)}
                    : h1 \in LowercaseKeys(tempValues.h, tempValues.v.a) }

\* Config.Find: [h, v, found, panic]
FindOn(h, key) ==
    IF key = <<>> THEN [h |-> h, v |-> Nil, found |-> FALSE, panic |-> FALSE]
    ELSE LET kp == keyToPathParts(key)
             f == FindNestedMap(h, values, kp.pathParts, FALSE)
         IN IF f.r # NoMap /\ kp.finalKey \in DOMAIN h[f.r].m
            THEN LET c == Clone(h, h[f.r].m[kp.finalKey])
                 IN [h |-> c.h, v |-> c.v, found |-> ~c.panic, panic |-> c.panic]
            ELSE [h |-> h, v |-> Nil, found |-> FALSE, panic |-> FALSE]

\* Config.Get: a missing final key reads as nil, which Clone returns as nil
GetOn(h, key) ==
    IF key = <<>> THEN [h |-> h, v |-> Nil, panic |-> FALSE]
    ELSE LET kp == keyToPathParts(key)
             f == FindNestedMap(h, values, kp.pathParts, FALSE)
         IN IF f.r # NoMap
            THEN Clone(h, IF kp.finalKey \in DOMAIN h[f.r].m THEN h[f.r].m[kp.finalKey] ELSE Nil)
            ELSE [h |-> h, v |-> Nil, panic |-> FALSE]

\* Config.Values
ValuesOn(h) == Clone(h, Ref(values))

(***************************************************************************)
(* The actions.                                                            *)
(***************************************************************************)
\* what a caller records of a call: its arguments and where Load stood
Call(name, key, arg) ==
    [name |-> name, key |-> key, arg |-> arg,
     lpc |-> load.pc, lmerged |-> load.merged, lres |-> load.res]

Return(h, r, o) ==
    /\ heap' = Collect(h, Roots(providers, r))
    /\ ret' = r
    /\ op' = o
    /\ pre' = Mapping(heap)
    /\ steps' = steps + 1
    /\ UNCHANGED <<providers, extensions, mu, load>>

Set(key, t) ==
    /\ steps < MaxOps
    /\ key = <<>> \/ Lockable(mu)
    /\ Room(heap, TreeObjs(t) + Len(Split(key)))
    /\ LET value == Build(heap, t)
       IN Return(SetOn(value.h, key, value.v), NoRet, Call("Set", key, t))

SetDefault(key, t) ==
    /\ steps < MaxOps
    /\ key = <<>> \/ Lockable(mu)
    /\ Room(heap, TreeObjs(t) + Len(Split(key)))
    /\ LET value == Build(heap, t)
       IN Return(SetDefaultOn(value.h, key, value.v), NoRet, Call("SetDefault", key, t))

SetDefaults(arg) ==
    /\ steps < MaxOps
    /\ arg.k = "nil" \/ Lockable(mu)
    /\ Room(heap, IF arg.k \in {"map", "mapptr"} THEN TreeObjs(arg.t)
                  ELSE IF arg.k = "structptr" THEN TreeObjs(Unbind(arg.s)) ELSE 0)
    /\ \E r \in SetDefaultsOn(heap, arg) :
          Return(r.h, [NoRet EXCEPT !.err = r.err], Call("SetDefaults", <<>>, arg))

Get(key) ==
    /\ steps < MaxOps
    /\ key = <<>> \/ Lockable(mu)
    /\ Room(heap, ObjCount(heap, Ref(values)))
    /\ LET r == GetOn(heap, key)
       IN Return(r.h, [NoRet EXCEPT !.valid = ~r.panic, !.v = r.v, !.panic = r.panic],
                 Call("Get", key, Nil))

Find(key) ==
    /\ steps < MaxOps
    /\ key = <<>> \/ Lockable(mu)
    /\ Room(heap, ObjCount(heap, Ref(values)))
    /\ LET r == FindOn(heap, key)
       IN Return(r.h, [NoRet EXCEPT !.valid = ~r.panic, !.v = r.v, !.found = r.found,
                                    !.panic = r.panic],
                 Call("Find", key, Nil))

Values ==
    /\ steps < MaxOps
    /\ Lockable(mu)
    /\ Room(heap, ObjCount(heap, Ref(values)))
    /\ LET r == ValuesOn(heap)
       IN Return(r.h, [NoRet EXCEPT !.valid = ~r.panic, !.v = r.v, !.panic = r.panic],
                 Call("Values", <<>>, Nil))

\* the caller changes a map or slice it got back: an entry added or changed,
\* an entry deleted, an element overwritten
Mutate ==
    /\ ret.valid
    /\ \E a \in ReachFrom(heap, ValAddrs(ret.v)) :
         \E h2 \in IF heap[a].kind = "map"
                   THEN {HeapPut(heap, a, kA, Val(7))}
                        \cup {HeapDelete(heap, a, k) : k \in DOMAIN heap[a].m}
                   ELSE {[heap EXCEPT ![a] = SliceObj([i \in 1..Len(heap[a].s) |-> Val(7)])]} :
            /\ heap' = Collect(h2, Roots(providers, NoRet))
            /\ ret' = NoRet
            /\ op' = Call("Mutate", <<>>, TreeOf(heap, ret.v))
            /\ pre' = Mapping(heap)
    /\ UNCHANGED <<providers, extensions, mu, load, steps>>

(***************************************************************************)
(* LoadWithContext, one step per hook, per lock operation and per provider *)
(***************************************************************************)
\* a LoadWithContext that takes the lock before its pre-load hooks
LoadStartLocking ==
    /\ steps < MaxOps
    /\ load.pc = "idle"
    /\ Lockable(mu)
    /\ mu' = TRUE
    /\ load' = [IdleLoad EXCEPT !.pc = "pre", !.i = 1]
    /\ op' = Call("Load", <<>>, Nil)
    /\ pre' = Mapping(heap)
    /\ steps' = steps + 1
    /\ UNCHANGED <<heap, providers, extensions, ret>>

LoadStart ==
    /\ steps < MaxOps
    /\ load.pc = "idle"
    /\ load' = [IdleLoad EXCEPT !.pc = "pre", !.i = 1]
    /\ op' = Call("Load", <<>>, Nil)
    /\ pre' = Mapping(heap)
    /\ steps' = steps + 1
    /\ UNCHANGED <<heap, providers, extensions, mu, ret>>

\* a pre-load loop that ignores the error of a hook
PreLoadIgnoringError ==
    /\ load.pc = "pre"
    /\ load.i <= Len(extensions)
    /\ load' = [Called(load, "PreLoad", extensions[load.i].name) EXCEPT !.i = @ + 1]
    /\ UNCHANGED <<heap, providers, extensions, mu, ret, op, pre, steps>>

PreLoad ==
    /\ load.pc = "pre"
    /\ load.i <= Len(extensions)
    /\ LET ext == extensions[load.i]
           l == Called(load, "PreLoad", ext.name)
       IN load' = IF ext.preErr
                  THEN [l EXCEPT !.pc = "idle", !.res = "ErrExtensionPreLoadHookFailed",
                                 !.who = ext.name,
                                 !.wraps = {"ErrExtensionPreLoadHookFailed", <<"error of", ext.name>>}]
                  ELSE [l EXCEPT !.i = @ + 1]
    /\ UNCHANGED <<heap, providers, extensions, mu, ret, op, pre, steps>>

LoadLock ==
    /\ load.pc = "pre"
    /\ load.i > Len(extensions)
    /\ Lockable(mu)
    /\ mu' = TRUE
    /\ load' = [load EXCEPT !.pc = "merge", !.i = 1, !.start = Mapping(heap)]
    /\ UNCHANGED <<heap, providers, extensions, ret, op, pre, steps>>

\* a provider loop that goes on to the next provider after a failure
LoadProviderSkipping ==
    /\ load.pc = "merge"
    /\ load.i <= Len(providers)
    /\ LET p == providers[load.i]
       IN IF p.err
          THEN /\ load' = [Called(load, "Load", p.name) EXCEPT !.i = @ + 1]
               /\ UNCHANGED <<heap, op, pre>>
          ELSE /\ Room(heap, TreeObjs(p.data))
               /\ LET out == IF p.fresh THEN Build(heap, p.data)
                             ELSE [h |-> heap, v |-> Ref(p.out)]
                  IN /\ \E h2 \in Merge(out.h, values, out.v.a) :
                          heap' = Collect(h2, Roots(providers, ret))
                     /\ load' = [Called(load, "Load", p.name) EXCEPT
                                     !.i = @ + 1, !.merged = @ + 1,
                                     !.outs = Append(@, TreeOf(out.h, out.v))]
                     /\ op' = Call("Merge", <<>>, TreeOf(out.h, out.v))
                     /\ pre' = Mapping(heap)
    /\ UNCHANGED <<mu, providers, extensions, ret, steps>>

\* a provider loop that restores the mapping of before the Load when a
\* provider fails
LoadProviderRollingBack ==
    /\ load.pc = "merge"
    /\ load.i <= Len(providers)
    /\ LET p == providers[load.i]
       IN IF p.err
          THEN /\ mu' = FALSE
               /\ Room(heap, TreeObjs(load.start))
               /\ LET old == Build(heap, load.start)
                  IN heap' = Collect([old.h EXCEPT ![values] = old.h[old.v.a]],
                                     Roots(providers, ret))
               /\ load' = [Called(load, "Load", p.name) EXCEPT
                               !.pc = "idle", !.res = "ErrProviderLoadFailed",
                               !.who = p.name,
                               !.wraps = {"ErrProviderLoadFailed", ProviderErr(p)}]
               /\ UNCHANGED <<op, pre>>
          ELSE /\ Room(heap, TreeObjs(p.data))
               /\ LET out == IF p.fresh THEN Build(heap, p.data)
                             ELSE [h |-> heap, v |-> Ref(p.out)]
                  IN /\ \E h2 \in Merge(out.h, values, out.v.a) :
                          heap' = Collect(h2, Roots(providers, ret))
                     /\ load' = [Called(load, "Load", p.name) EXCEPT
                                     !.i = @ + 1, !.merged = @ + 1,
                                     !.outs = Append(@, TreeOf(out.h, out.v))]
                     /\ op' = Call("Merge", <<>>, TreeOf(out.h, out.v))
                     /\ pre' = Mapping(heap)
               /\ UNCHANGED mu
    /\ UNCHANGED <<providers, extensions, ret, steps>>

\* p.Load() and, when it succeeds, maps.Merge(c.values, values)
LoadProvider ==
    /\ load.pc = "merge"
    /\ load.i <= Len(providers)
    /\ LET p == providers[load.i]
       IN IF p.err
          THEN /\ mu' = FALSE
               /\ load' = [Called(load, "Load", p.name) EXCEPT
                               !.pc = "idle", !.res = "ErrProviderLoadFailed",
                               !.who = p.name,
                               !.wraps = {"ErrProviderLoadFailed", ProviderErr(p)}]
               /\ UNCHANGED <<heap, op, pre>>
          ELSE /\ Room(heap, TreeObjs(p.data))
               /\ LET out == IF p.fresh THEN Build(heap, p.data)
                             ELSE [h |-> heap, v |-> Ref(p.out)]
                  IN /\ \E h2 \in Merge(out.h, values, out.v.a) :
                          heap' = Collect(h2, Roots(providers, ret))
                     /\ load' = [Called(load, "Load", p.name) EXCEPT
                                     !.i = @ + 1, !.merged = @ + 1,
                                     !.outs = Append(@, TreeOf(out.h, out.v))]
                     /\ op' = Call("Merge", <<>>, TreeOf(out.h, out.v))
                     /\ pre' = Mapping(heap)
               /\ UNCHANGED mu
    /\ UNCHANGED <<providers, extensions, ret, steps>>

LoadUnlock ==
    /\ load.pc = "merge"
    /\ load.i > Len(providers)
    /\ mu' = FALSE
    /\ load' = [load EXCEPT !.pc = "post", !.i = 1]
    /\ UNCHANGED <<heap, providers, extensions, ret, op, pre, steps>>

PostLoad ==
    /\ load.pc = "post"
    /\ load.i <= Len(extensions)
    /\ LET ext == extensions[load.i]
           l == Called(load, "PostLoad", ext.name)
       IN load' = IF ext.postErr
                  THEN [l EXCEPT !.pc = "idle", !.res = "ErrExtensionPostLoadHookFailed",
                                 !.who = ext.name,
                                 !.wraps = {"ErrExtensionPostLoadHookFailed", <<"error of", ext.name>>}]
                  ELSE [l EXCEPT !.i = @ + 1]
    /\ UNCHANGED <<heap, providers, extensions, mu, ret, op, pre, steps>>

LoadReturn ==
    /\ load.pc = "post"
    /\ load.i > Len(extensions)
    /\ load' = [load EXCEPT !.pc = "idle", !.res = "ok"]
    /\ UNCHANGED <<heap, providers, extensions, mu, ret, op, pre, steps>>

Next ==
    \/ \E key \in PathKeys, t \in ArgValues : Set(key, t)
    \/ \E key \in PathKeys, t \in ArgValues : SetDefault(key, t)
    \/ \E arg \in DefaultsArgs : SetDefaults(arg)
    \/ \E key \in PathKeys : Get(key)
    \/ \E key \in PathKeys : Find(key)
    \/ Values
    \/ Mutate
    \/ LoadStart
    \/ PreLoad
    \/ LoadLock
    \/ LoadProvider
    \/ LoadUnlock
    \/ PostLoad
    \/ LoadReturn

Spec == Init /\ [][Next]_vars

\* the goroutine in LoadWithContext keeps running: every hook and every
\* provider it calls returns, and the lock it asks for is granted when free
LoadRuns ==
    /\ WF_vars(PreLoad)
    /\ WF_vars(LoadLock)
    /\ WF_vars(LoadProvider)
    /\ WF_vars(LoadUnlock)
    /\ WF_vars(PostLoad)
    /\ WF_vars(LoadReturn)

LiveSpec == Spec /\ LoadRuns

(***************************************************************************)
(* Vocabulary of the properties: mappings read as trees.                   *)
(***************************************************************************)
IsTMap(t) == t.t = "map"
IsScalar(t) == t.t \in {"val", "nil"}
Absent == [t |-> "absent"]

\* the value at a path of exact keys, Absent when a key is missing or a
\* container on the way is no mapping
RECURSIVE TreeAt(_, _)
TreeAt(t, path) ==
    IF path = <<>> THEN t
    ELSE IF IsTMap(t) /\ Head(path) \in DOMAIN t.m THEN TreeAt(t.m[Head(path)], Tail(path))
    ELSE Absent

\* the path of segments a dotted key names
PathOf(key) == LET kp == keyToPathParts(key) IN Append(kp.pathParts, kp.finalKey)

\* every path of exact keys of a tree
RECURSIVE PathsOf(_)
PathsOf(t) ==
    IF ~IsTMap(t) THEN {}
    ELSE UNION { {<<k>>} \cup {<<k>> \o q : q \in PathsOf(t.m[k])} : k \in DOMAIN t.m }

IsPrefix(p, q) == Len(p) <= Len(q) /\ SubSeq(q, 1, Len(p)) = p

\* the values a tree supplies at a path of normalized segments, whatever the
\* spelling of its keys
RECURSIVE NormAt(_, _)
NormAt(t, path) ==
    IF path = <<>> THEN {t}
    ELSE IF ~IsTMap(t) THEN {}
    ELSE UNION { NormAt(t.m[k], Tail(path)) : k \in {x \in DOMAIN t.m : NormalKey(x) = Head(path)} }

\* every key of every mapping of the tree is lower-cased and trimmed
RECURSIVE KeysNormal(_)
KeysNormal(t) ==
    IF IsTMap(t) THEN \A k \in DOMAIN t.m : NormalKey(k) = k /\ KeysNormal(t.m[k])
    ELSE IF t.t = "slice" THEN \A i \in 1..Len(t.s) : KeysNormal(t.s[i])
    ELSE TRUE

\* the override merge of two map trees as the specification words it, the
\* source keys taken in any order: the set of its possible results
RECURSIVE OverrideMerge(_, _)
RECURSIVE OverrideMergeKeys(_, _, _)
OverrideMergeKeys(d, s, todo) ==
    IF todo = {} THEN {d}
    ELSE UNION {
           LET n == NormalKey(k)
               step == IF n = <<>> THEN {d}
                       ELSE IF n \in DOMAIN d.m /\ IsTMap(d.m[n]) /\ IsTMap(s.m[k])
                            THEN {TMap(Put(d.m, n, r)) : r \in OverrideMerge(d.m[n], s.m[k])}
                            ELSE {TMap(Put(d.m, n, s.m[k]))}
           IN UNION { OverrideMergeKeys(d2, s, todo \ {k}) : d2 \in step }
           : k \in todo }
OverrideMerge(d, s) == OverrideMergeKeys(d, s, DOMAIN s.m)

\* the no-override merge of two map trees, likewise
RECURSIVE KeepMerge(_, _)
RECURSIVE KeepMergeKeys(_, _, _)
KeepMergeKeys(d, s, todo) ==
    IF todo = {} THEN {d}
    ELSE UNION {
           LET n == NormalKey(k)
               step == IF n = <<>> THEN {d}
                       ELSE IF n \in DOMAIN d.m
                            THEN IF IsTMap(d.m[n]) /\ IsTMap(s.m[k])
                                 THEN {TMap(Put(d.m, n, r)) : r \in KeepMerge(d.m[n], s.m[k])}
                                 ELSE {d}
                            ELSE {TMap(Put(d.m, n, s.m[k]))}
           IN UNION { KeepMergeKeys(d2, s, todo \ {k}) : d2 \in step }
           : k \in todo }
KeepMerge(d, s) == KeepMergeKeys(d, s, DOMAIN s.m)

\* the fold of the override merge over provider outputs, from the trees ds
RECURSIVE FoldMerge(_, _, _)
FoldMerge(ds, outs, i) ==
    IF i > Len(outs) THEN ds
    ELSE FoldMerge(UNION {OverrideMerge(d, outs[i]) : d \in ds}, outs, i + 1)

\* what Get(key) and Find(key) would return now, as trees
GetNow(key) == LET r == GetOn(heap, key) IN IF r.panic THEN [t |-> "panic"] ELSE TreeOf(r.h, r.v)
FoundNow(key) == FindOn(heap, key).found
ValuesNow == LET r == ValuesOn(heap) IN IF r.panic THEN [t |-> "panic"] ELSE TreeOf(r.h, r.v)
CanRead == Room(heap, ObjCount(heap, Ref(values)))

\* dotted keys for paths of one-letter segments
RECURSIVE Dotted(_)
Dotted(path) ==
    IF Len(path) = 1 THEN Head(path) ELSE Head(path) \o <<".">> \o Dotted(Tail(path))

\* the normalized key paths the providers of the model can supply
SuppliedPaths == {<<kA>>, <<kB>>, <<kA, kB>>, <<kA, kC>>}

(***************************************************************************)
(* C1                                                                      *)
(***************************************************************************)
\* a Load on a fresh Config has merged every provider and returned nil, and
\* no call has touched the mapping since the last merge
LoadedFresh ==
    /\ load.res = "ok"
    /\ load.pc = "idle"
    /\ op.name = "Merge"
    /\ load.start = TMap(EmptyMap)
    /\ CanRead

SuppliersOf(path) == {i \in 1..Len(load.outs) : NormAt(load.outs[i], path) # {}}
ScalarSuppliersOf(path) ==
    {i \in 1..Len(load.outs) : \E v \in NormAt(load.outs[i], path) : IsScalar(v)}
Last(S) == CHOOSE i \in S : \A j \in S : j <= i

\* C1 as stated: after a successful Load, for every key path that more than
\* one provider supplies with a scalar Get returns the value of the last of
\* them, and every key path only one provider supplies is present.
C1_LastWinsEveryPath ==
    LoadedFresh =>
        \A path \in SuppliedPaths :
            /\ Cardinality(ScalarSuppliersOf(path)) > 1 =>
                   GetNow(Dotted(path)) \in NormAt(load.outs[Last(ScalarSuppliersOf(path))], path)
            /\ Cardinality(SuppliersOf(path)) = 1 => FoundNow(Dotted(path))

\* C1 amended: after a successful Load on a fresh Config the mapping is the
\* fold of the override merge over the provider outputs in registration
\* order; every top-level key some provider supplies is present, and holds
\* the scalar of the last provider supplying it when that one gives scalars.
C1_LoadIsFoldOfMerge ==
    LoadedFresh =>
        /\ Mapping(heap) \in FoldMerge({TMap(EmptyMap)}, load.outs, 1)
        /\ \A n \in {kA, kB, kC} :
              SuppliersOf(<<n>>) # {} =>
                  /\ FoundNow(n)
                  /\ LET vals == NormAt(load.outs[Last(SuppliersOf(<<n>>))], <<n>>)
                     IN (\A v \in vals : IsScalar(v)) => GetNow(n) \in vals

\* the scenario of the specification: {a:{b:1}} then {a:{b:2,c:3}}
C1_Witness ==
    /\ LoadedFresh
    /\ Len(load.outs) = 3
    /\ load.outs[2] = TMap(kA :> TMap(kB :> Val(1)))
    /\ Mapping(heap) = TMap(kA :> TMap(kB :> Val(2) @@ kC :> Val(3)))

(***************************************************************************)
(* C2                                                                      *)
(***************************************************************************)
\* the last call read or wrote the mapping (it did not return early)
TouchesMapping ==
    \/ op.name \in {"Get", "Find", "Set", "SetDefault"} /\ op.key # <<>>
    \/ op.name = "Values"
    \/ op.name = "SetDefaults" /\ op.arg.k # "nil"

C3_KeysNormalized == KeysNormal(Mapping(heap))

(***************************************************************************)
(* C4                                                                      *)
(***************************************************************************)
\* Find(key) reports found on the tree t
PresentIn(t, key) == key # <<>> /\ TreeAt(t, PathOf(key)) # Absent

Blocked(t, key) ==
    \E n \in 1..(Len(PathOf(key)) - 1) :
        LET v == TreeAt(t, SubSeq(PathOf(key), 1, n))
        IN v # Absent /\ ~IsTMap(v)

\* every path that is neither the key's path, a prefix nor an extension of
\* it holds after the call what it held before
OtherPathsKept(key) ==
    \A q \in PathsOf(pre) \cup PathsOf(Mapping(heap)) :
        ~IsPrefix(q, PathOf(key)) /\ ~IsPrefix(PathOf(key), q) =>
            TreeAt(Mapping(heap), q) = TreeAt(pre, q)

RECURSIVE HasNilInside(_)
HasNilInside(v) ==
    \/ v.t = "map" /\ \E k \in DOMAIN v.m : v.m[k] = Nil \/ HasNilInside(v.m[k])
    \/ v.t = "slice" /\ \E i \in 1..Len(v.s) : v.s[i] = Nil \/ HasNilInside(v.s[i])

C6_ReturnedCopiesIndependent ==
    op.name = "Mutate" => Mapping(heap) = pre

\* the caller changed a returned mapping that holds a nested mapping
C6_Witness ==
    /\ op.name = "Mutate"
    /\ IsTMap(op.arg)
    /\ \E k \in DOMAIN op.arg.m : IsTMap(op.arg.m[k])
    /\ op.arg = pre

(***************************************************************************)
(* C7                                                                      *)
(***************************************************************************)
\* C7: on a Config where no segment of a.b.c exists, SetDefault or Set of
\* a.b.c to v makes Get return v and Values() show exactly {a:{b:{c:v}}}.
C7_PathRoundTrip ==
    /\ op.name \in {"Set", "SetDefault"}
    /\ op.key = kABC
    /\ TreeAt(pre, <<kA>>) = Absent
    /\ CanRead
    => /\ GetNow(kABC) = op.arg
       /\ TreeAt(ValuesNow, <<kA>>) = TMap(kB :> TMap(kC :> op.arg))

(***************************************************************************)
(* C8                                                                      *)
(***************************************************************************)
\* C8: Get("") returns nil, Find("") returns (nil, false), and Set("", v)
\* and SetDefault("", v) leave the mapping unchanged.
C8_EmptyKeyNoOp ==
    op.name \in {"Get", "Find", "Set", "SetDefault"} /\ op.key = <<>> =>
        /\ op.name = "Get" => ret.v = Nil /\ ~ret.panic
        /\ op.name = "Find" => ret.v = Nil /\ ~ret.found /\ ~ret.panic
        /\ Mapping(heap) = pre

\* Set("", v) ran on a Config that holds values
C8_Witness ==
    /\ op.name = "Set"
    /\ op.key = <<>>
    /\ op.arg # Nil
    /\ pre # TMap(EmptyMap)

(***************************************************************************)
(* C9                                                                      *)
(***************************************************************************)
\* the keys of the map tree s that normalize to n
NamedBy(s, n) == {k \in DOMAIN s.m : NormalKey(k) = n}

\* the rule of the override merge for the source key k of s, from d to p
OverrideRule(d, s, p, k) ==
    LET n == NormalKey(k)
    IN /\ n \in DOMAIN p.m
       /\ IF n \in DOMAIN d.m /\ IsTMap(d.m[n]) /\ IsTMap(s.m[k])
          THEN p.m[n] \in OverrideMerge(d.m[n], s.m[k])
          ELSE p.m[n] = s.m[k]

\* every key of d that no key of s names is in p with its value
UnnamedKept(d, s, p) ==
    \A j \in DOMAIN d.m : NamedBy(s, j) = {} => j \in DOMAIN p.m /\ p.m[j] = d.m[j]

\* C9 as stated: after Merge(dst, src), for every src key k with non-empty
\* normalized form n, dst[n] is the recursive override merge when dst[n]
\* and src[k] were both mappings and equals src[k] otherwise; every dst key
\* not named by src keeps its value.
C9_OverrideMergeEveryKey ==
    op.name = "Merge" =>
        /\ \A k \in DOMAIN op.arg.m :
               NormalKey(k) # <<>> => OverrideRule(pre, op.arg, Mapping(heap), k)
        /\ UnnamedKept(pre, op.arg, Mapping(heap))

\* C9 amended: the rule holds for every src key whose non-empty normalized
\* form no other src key shares; src keys that share a normalized form are
\* applied one after the other in an unspecified order, so the result is one
\* of the override merges over the orders of the src keys; every dst key
\* not named by src keeps its value.
C9_OverrideMergeUniqueKeys ==
    op.name = "Merge" =>
        /\ \A k \in DOMAIN op.arg.m :
               NormalKey(k) # <<>> /\ NamedBy(op.arg, NormalKey(k)) = {k} =>
                   OverrideRule(pre, op.arg, Mapping(heap), k)
        /\ Mapping(heap) \in OverrideMerge(pre, op.arg)
        /\ UnnamedKept(pre, op.arg, Mapping(heap))

\* a merge recursed into a.{b, c} where dst held a mapping with b = 5 and
\* c = 6 and src a mapping with b = 1 only
C9_Witness ==
    /\ op.name = "Merge"
    /\ TreeAt(pre, <<kA>>) = TMap(kB :> Val(5) @@ kC :> Val(6))
    /\ TreeAt(op.arg, <<kA>>) = TMap(kB :> Val(1))
    /\ TreeAt(Mapping(heap), <<kA>>) = TMap(kB :> Val(1) @@ kC :> Val(6))

(***************************************************************************)
(* C10                                                                     *)
(***************************************************************************)
\* the trees LowercaseKeys can leave of a tree
RECURSIVE LowerTree(_)
LowerTree(t) ==
    IF ~IsTMap(t) THEN {t}
    ELSE LET norms == {NormalKey(k) : k \in DOMAIN t.m}
             choices(n) == UNION {LowerTree(t.m[k]) : k \in NamedBy(t, n)}
         IN {TMap(f) : f \in {g \in [norms -> UNION {choices(n) : n \in norms}] :
                                  \A n \in norms : g[n] \in choices(n)}}

\* the mapping SetDefaults merges for its argument
Supplied(arg) ==
    IF arg.k = "structptr" THEN LowerTree(Unbind(arg.s))
    ELSE IF arg.k \in {"map", "mapptr"} THEN {arg.t}
    ELSE {}

\* every key path of d is in p, a mapping still a mapping, anything else
\* with its value
PathsKept(d, p) ==
    \A q \in PathsOf(d) :
        IF IsTMap(TreeAt(d, q)) THEN IsTMap(TreeAt(p, q))
        ELSE TreeAt(p, q) = TreeAt(d, q)

\* C10 as stated: SetDefaults(x) never changes the value at a key path that
\* exists in the Config, and every key absent from the Config is added
\* with the supplied value.
C10_SeedsEveryAbsentKey ==
    op.name = "SetDefaults" /\ Supplied(op.arg) # {} =>
        \E s \in Supplied(op.arg) :
            /\ PathsKept(pre, Mapping(heap))
            /\ \A k \in DOMAIN s.m :
                   NormalKey(k) \notin DOMAIN pre.m =>
                       /\ NormalKey(k) \in DOMAIN Mapping(heap).m
                       /\ Mapping(heap).m[NormalKey(k)] = s.m[k]

\* C10 amended: SetDefaults(x) never changes the value at a key path that
\* exists in the Config; it recurses where both values are mappings; every
\* key absent from the Config whose normalized form is non-empty and shared
\* with no other supplied key is added with the supplied value; keys whose
\* normalized form is empty are skipped, and keys that share a normalized
\* form are applied in an unspecified order, the first one added and the
\* later ones merged into it without override.
C10_SeedsUniqueAbsentKeys ==
    op.name = "SetDefaults" /\ Supplied(op.arg) # {} =>
        \E s \in Supplied(op.arg) :
            /\ PathsKept(pre, Mapping(heap))
            /\ Mapping(heap) \in KeepMerge(pre, s)
            /\ \A k \in DOMAIN s.m :
                   /\ NormalKey(k) # <<>>
                   /\ NamedBy(s, NormalKey(k)) = {k}
                   /\ NormalKey(k) \notin DOMAIN pre.m
                   => /\ NormalKey(k) \in DOMAIN Mapping(heap).m
                      /\ Mapping(heap).m[NormalKey(k)] = s.m[k]

\* SetDefaults({a: {b: 5, c: 6}}) ran where a.b held 1 and a.c was missing
C10_Witness ==
    /\ op.name = "SetDefaults"
    /\ op.arg.k = "map"
    /\ TreeAt(pre, <<kA>>) = TMap(kB :> Val(1))
    /\ TreeAt(Mapping(heap), <<kA>>) = TMap(kB :> Val(1) @@ kC :> Val(6))

(***************************************************************************)
(* C11                                                                     *)
(***************************************************************************)
\* for every key k of s alone in naming its normalized form n, where d holds
\* one entry that normalizes to n: p holds exactly one entry for n, under n,
\* with the value of s (override) or of d (no override); mappings on both
\* sides are followed down
RECURSIVE SingleEntry(_, _, _, _)
SingleEntry(d, s, p, override) ==
    \A k \in DOMAIN s.m :
        LET n == NormalKey(k)
            held == {j \in DOMAIN d.m : NormalKey(j) = n}
        IN n # <<>> /\ NamedBy(s, n) = {k} /\ Cardinality(held) = 1 =>
               LET j == CHOOSE x \in held : TRUE
               IN /\ {x \in DOMAIN p.m : NormalKey(x) = n} = {n}
                  /\ IF IsTMap(d.m[j]) /\ IsTMap(s.m[k])
                     THEN IsTMap(p.m[n]) /\ SingleEntry(d.m[j], s.m[k], p.m[n], override)
                     ELSE p.m[n] = IF override THEN s.m[k] ELSE d.m[j]

\* C11: when the destination of Merge or MergeWithoutOverride holds an
\* entry for a key and the source names that key in any spelling, the
\* destination has afterwards exactly one entry for it, under the normalized
\* spelling, with the source value for Merge and the original value for
\* MergeWithoutOverride.
C11_MergesKeyNormalizing ==
    /\ op.name = "Merge" => SingleEntry(pre, op.arg, Mapping(heap), TRUE)
    /\ op.name = "SetDefaults" =>
           \A s \in Supplied(op.arg) : SingleEntry(pre, s, Mapping(heap), FALSE)

(***************************************************************************)
(* C12                                                                     *)
(***************************************************************************)
\* C12: SetDefaults(nil) returns ErrNilValues; a nil struct pointer, a
\* scalar that is no pointer and a pointer to a scalar return an error; in
\* each of these cases the mapping is after the call what it was before.
C12_SetDefaultsRejectsInvalid ==
    op.name = "SetDefaults" /\ op.arg.k \in {"nil", "nilptr", "scalar", "scalarptr"} =>
        /\ ret.err # ""
        /\ op.arg.k = "nil" => ret.err = "ErrNilValues"
        /\ Mapping(heap) = pre

\* SetDefaults(nil) ran on a Config that holds values
C12_Witness ==
    /\ op.name = "SetDefaults"
    /\ op.arg.k = "nil"
    /\ ret.err = "ErrNilValues"
    /\ pre # TMap(EmptyMap)

(***************************************************************************)
(* C13, C14: what a LoadWithContext called, and what it returned.          *)
(***************************************************************************)
\* the calls of one kind in the trace of the Load, as names in order
RECURSIVE NamesOf(_, _)
NamesOf(trace, kind) ==
    IF trace = <<>> THEN <<>>
    ELSE IF Head(trace).k = kind THEN <<Head(trace).n>> \o NamesOf(Tail(trace), kind)
    ELSE NamesOf(Tail(trace), kind)

\* the names of the first n of a sequence of providers or extensions
FirstNames(xs, n) == [j \in 1..n |-> xs[j].name]

\* the j-th call of the trace returned an error
CallFailed(j) ==
    LET c == load.trace[j]
    IN \/ c.k = "Load" /\ \E i \in 1..Len(providers) : providers[i].name = c.n /\ providers[i].err
       \/ c.k = "PreLoad" /\ \E i \in 1..Len(extensions) : extensions[i].name = c.n /\ extensions[i].preErr
       \/ c.k = "PostLoad" /\ \E i \in 1..Len(extensions) : extensions[i].name = c.n /\ extensions[i].postErr

\* C13: when the Load of a provider returns an error, Load returns an error
\* that wraps ErrProviderLoadFailed and the provider's error and names the
\* provider; no later provider is loaded and no post-load hook runs.
C13_ProviderFailureAborts ==
    \A j \in 1..Len(load.trace) :
        load.trace[j].k = "Load" /\ CallFailed(j) =>
            /\ j = Len(load.trace)
            /\ load.pc = "idle"
            /\ load.res = "ErrProviderLoadFailed"
            /\ load.who = load.trace[j].n
            /\ \E i \in 1..Len(providers) :
                   /\ providers[i].name = load.who
                   /\ load.wraps = {"ErrProviderLoadFailed", ProviderErr(providers[i])}
                   /\ NamesOf(load.trace, "Load") = FirstNames(providers, i)
            /\ NamesOf(load.trace, "PostLoad") = <<>>

\* a Load failed at a provider that is not the last one, with extensions set
C13_Witness ==
    /\ load.pc = "idle"
    /\ load.res = "ErrProviderLoadFailed"
    /\ load.who = "dotenv"
    /\ load.i < Len(providers)
    /\ Len(extensions) > 0

\* C14: the PreLoad hooks run in registration order before the first
\* provider is loaded and the PostLoad hooks in registration order after the
\* last provider is merged; the first hook that fails aborts Load with the
\* error of its phase naming the extension, no later hook runs and, after a
\* pre-load failure, no provider is loaded.
C14_HookOrdering ==
    LET pres == NamesOf(load.trace, "PreLoad")
        loads == NamesOf(load.trace, "Load")
        posts == NamesOf(load.trace, "PostLoad")
        n == Len(load.trace)
    IN /\ Len(pres) <= Len(extensions) /\ pres = FirstNames(extensions, Len(pres))
       /\ Len(posts) <= Len(extensions) /\ posts = FirstNames(extensions, Len(posts))
       /\ \A j \in 1..n : load.trace[j].k = "PreLoad" <=> j <= Len(pres)
       /\ \A j \in 1..n : load.trace[j].k = "PostLoad" <=> j > Len(pres) + Len(loads)
       /\ loads # <<>> => Len(pres) = Len(extensions)
       /\ posts # <<>> => loads = FirstNames(providers, Len(providers)) /\ load.merged = Len(providers)
       /\ load.pc = "idle" /\ load.res = "ok" =>
              Len(pres) = Len(extensions) /\ Len(posts) = Len(extensions)
       /\ \A j \in 1..n :
              load.trace[j].k \in {"PreLoad", "PostLoad"} /\ CallFailed(j) =>
                  /\ j = n
                  /\ load.pc = "idle"
                  /\ load.who = load.trace[j].n
                  /\ load.res = IF load.trace[j].k = "PreLoad"
                                THEN "ErrExtensionPreLoadHookFailed"
                                ELSE "ErrExtensionPostLoadHookFailed"
                  /\ load.res \in load.wraps
                  /\ load.trace[j].k = "PreLoad" => loads = <<>> /\ load.merged = 0

\* a Load was aborted by the PreLoad hook of the second of three extensions
C14_Witness ==
    /\ load.pc = "idle"
    /\ load.res = "ErrExtensionPreLoadHookFailed"
    /\ load.who = "ext2"
    /\ NamesOf(load.trace, "PreLoad") = <<"ext1", "ext2">>
    /\ Len(extensions) = 3

(***************************************************************************)
(* C15                                                                     *)
(***************************************************************************)
\* a registered provider as it was described to New
AsSupplied(p) == [name |-> p.name, fresh |-> p.fresh, data |-> p.data, err |-> p.err]

\* the registered providers that NewEnvProvider() made
Injected == {i \in 1..Len(providers) : providers[i].fresh}

\* C15: New registers the default environment provider exactly when no
\* supplied provider has the environment provider's name, once and first,
\* followed by the supplied providers in their order; a successful Load then
\* calls it first, and at every key path that both it and a supplied provider
\* supply the mapping holds what a supplied provider gave.
C15_EnvProviderInjectedFirst ==
    /\ op.name = "New" =>
           LET hasEnv == \E i \in 1..Len(op.supplied) : op.supplied[i].name = envProviderName
               n == IF hasEnv THEN 0 ELSE 1
           IN /\ Injected = 1..n
              /\ Len(providers) = Len(op.supplied) + n
              /\ \A i \in 1..Len(op.supplied) : AsSupplied(providers[i + n]) = op.supplied[i]
    /\ Cardinality(Injected) <= 1
    /\ Injected # {} <=> \A i \in 1..Len(providers) : providers[i].name = envProviderName => providers[i].fresh
    /\ \A i \in Injected : i = 1 /\ providers[i].name = envProviderName
    /\ Injected # {} /\ NamesOf(load.trace, "Load") # <<>> =>
           Head(NamesOf(load.trace, "Load")) = envProviderName
    /\ LoadedFresh /\ Injected # {} =>
           \A path \in SuppliedPaths :
               LET later == SuppliersOf(path) \ {1}
               IN 1 \in SuppliersOf(path) /\ later # {} =>
                      NormAt(Mapping(heap), path) \subseteq NormAt(load.outs[Last(later)], path)

\* a Config made by New from two providers, neither named as the environment
\* provider, with an environment supplying a.b, has been loaded
C15_Witness ==
    /\ LoadedFresh
    /\ Injected = {1}
    /\ Len(providers) = 3
    /\ NormAt(load.outs[1], <<kA, kB>>) = {Val(9)}
    /\ SuppliersOf(<<kA, kB>>) = {1, 3}

(***************************************************************************)
(* Unbind and Bind of package maps, called directly.  The inputs are drawn *)
(* in LibInit; LibUnbind and LibBind apply the functions; LibBindAgain     *)
(* binds the same mapping into a second destination.                       *)
(***************************************************************************)
\* magnitudes around the limits of the integer kinds
Magnitudes ==
    { <<0>>, <<1>>, <<1, 0, 0>>, <<1, 2, 7>>, <<1, 2, 8>>, <<1, 2, 9>>, <<2, 5, 5>>, <<2, 5, 6>>,
      <<3, 2, 7, 6, 7>>, <<3, 2, 7, 6, 8>>, <<3, 2, 7, 6, 9>>, <<6, 5, 5, 3, 5>>, <<6, 5, 5, 3, 6>>,
      <<9, 9, 9, 9, 9>>,
      MaxInt32.d, MinInt32.d, <<2, 1, 4, 7, 4, 8, 3, 6, 4, 9>>,
      MaxUint32.d, <<4, 2, 9, 4, 9, 6, 7, 2, 9, 6>>,
      MaxInt64.d, MinInt64.d, <<9, 2, 2, 3, 3, 7, 2, 0, 3, 6, 8, 5, 4, 7, 7, 5, 8, 0, 9>>,
      MaxUint64.d, <<1, 8, 4, 4, 6, 7, 4, 4, 0, 7, 3, 7, 0, 9, 5, 5, 1, 6, 1, 6>> }

\* the magnitudes above 2^24 that are powers of two, hence exact floats
PowersOfTwo ==
    { MinInt32.d, <<4, 2, 9, 4, 9, 6, 7, 2, 9, 6>>, MinInt64.d,
      <<1, 8, 4, 4, 6, 7, 4, 4, 0, 7, 3, 7, 0, 9, 5, 5, 1, 6, 1, 6>> }

Numbers ==
    {Num(FALSE, d) : d \in Magnitudes} \cup {Num(TRUE, d) : d \in Magnitudes \ {<<0>>}}

\* the decimal string of a number
Decimal(n) ==
    (IF n.neg THEN <<"-">> ELSE <<>>) \o [i \in 1..Len(n.d) |-> DigitChar(n.d[i])]

\* the values of type any that hold the number n: of every integer kind it
\* fits, of the float kinds that hold it exactly, and its decimal string
SourcesOf(n) ==
    {IntOf(k, n) : k \in {j \in IntKinds : NumLeq(MinInt64, n) /\ NumLeq(n, MaxInt64)
                                            /\ withinIntRange(n, Bits(j))}}
    \cup {IntOf(k, n) : k \in {j \in UintKinds : ~n.neg /\ NumLeq(n, MaxUint64)
                                                 /\ withinUintRange(n, Bits(j))}}
    \cup (IF NumLeq(Num(FALSE, n.d), MaxExact64) \/ n.d \in PowersOfTwo
          THEN {Float("float64", n, <<>>)} ELSE {})
    \cup (IF NumLeq(Num(FALSE, n.d), MaxExact32) \/ n.d \in PowersOfTwo
          THEN {Float("float32", n, <<>>)} ELSE {})
    \cup {String(Decimal(n))}

\* a struct with one integer field A, tagged "a", holding 7
OneField(k) == TStruct(<<Field(kUpA, kA, IntOf(k, Num(FALSE, <<7>>)))>>)

\* every number, as every kind of source, into every kind of integer field
OverflowInputs ==
    UNION { { [group |-> "overflow", fn |-> "Bind", dk |-> "structptr", n |-> n,
               x |-> OneField(k), src |-> TMap(kA :> v)]
              : k \in IntKinds \cup UintKinds, v \in SourcesOf(n) }
            : n \in Numbers }

\* a struct to unbind and bind again
RoundTrip(x) ==
    [group |-> "roundtrip", fn |-> "Unbind", dk |-> "structptr", n |-> NoNum,
     x |-> x, src |-> TMap(EmptyMap)]

\* the key "a_b" and the field name AB
ka_b == <<"a", "_", "b">>
nAB == <<"A", "B">>

\* structs of directly coercible kinds: tagged (one with an option after the
\* name), with a nested struct of untagged fields, with an embedded struct,
\* and with an untagged or "-"-tagged field at the top level
RoundTripInputs ==
    { RoundTrip(TStruct(<< Field(kUpA, kA, String(<<"x">>)),
                          Field(kUpB, <<"b", ",", "o">>, IntOf("int8", MinInt8)),
                          Field(kUpC, kC, Float("float32", Num(TRUE, <<0>>), <<5>>)) >>)),
      RoundTrip(TStruct(<< Field(kUpA, kA, Bool(TRUE)),
                          Field(kUpB, kB, IntOf("uint64", MaxUint64)),
                          Field(kUpC, kC, IntOf("int64", MinInt64)) >>)),
      RoundTrip(TStruct(<< Field(kUpA, kA,
                                TStruct(<< Field(kUpB, <<>>, IntOf("uint16", MaxUint16)),
                                           Field(kUpC, <<>>, Float("float64", Num(FALSE, <<1>>), <<5>>)) >>)) >>)),
      RoundTrip(TStruct(<< Embedded(kUpB, TStruct(<<Field(kUpA, kA, String(<<"x">>))>>)),
                          Field(kUpC, kC, IntOf("int", Num(FALSE, <<1>>))) >>)),
      RoundTrip(TStruct(<<Field(kUpA, <<>>, String(<<"x">>))>>)),
      RoundTrip(TStruct(<<Field(kUpA, <<>>, String(<<>>))>>)),
      RoundTrip(TStruct(<< Field(kUpA, <<"-">>, IntOf("int32", MaxInt32)),
                          Field(kUpB, kB, IntOf("uint8", MaxUint8)) >>)) }

\* a mapping to bind into a zero-valued struct
BindInput(group, x, src) ==
    [group |-> group, fn |-> "Bind", dk |-> "structptr", n |-> NoNum, x |-> x, src |-> src]

\* two keys of the source resolve to the one field AB tagged "a_b"; one of
\* two values cannot be coerced; and two keys for two fields
SameFieldInputs ==
    { BindInput("keys", TStruct(<<Field(nAB, ka_b, String(<<>>))>>),
                TMap(ka_b :> String(<<"x">>) @@ <<"a", "b">> :> String(<<"y">>))),
      BindInput("keys", TStruct(<< Field(kUpA, kA, IntOf("int8", Num(FALSE, <<0>>))),
                                  Field(kUpB, kB, IntOf("int8", Num(FALSE, <<0>>))) >>),
                TMap(kA :> String(<<"x">>) @@ kB :> IntOf("int", Num(FALSE, <<1>>)))),
      BindInput("keys", TStruct(<< Field(kUpA, kA, IntOf("int8", Num(FALSE, <<0>>))),
                                  Field(kUpB, kB, IntOf("int8", Num(FALSE, <<0>>))) >>),
                TMap(kA :> IntOf("int", Num(FALSE, <<2>>)) @@ kB :> IntOf("int", Num(FALSE, <<1>>)))) }

\* embedded structs with a string field A, tagged "a" or untagged
Leaf == TStruct(<<Field(kUpA, kA, String(<<>>))>>)
LeafPlain == TStruct(<<Field(kUpA, <<>>, String(<<>>))>>)
LeafTwo == TStruct(<<Field(kUpA, kA, String(<<>>)), Field(kUpB, kB, String(<<>>))>>)
OuterField(tag) == Field(kUpA, tag, String(<<>>))

\* structs with embedded structs: one level, behind a nil pointer, two and
\* three levels deep, and with an outer field of the same key declared after
\* or before the embedded struct, by tag or by name
EmbeddedStructs ==
    { TStruct(<<Embedded(kUpC, Leaf), Field(kUpB, kB, String(<<>>))>>),
      TStruct(<<Embedded(kUpC, NilPtr(Leaf)), Field(kUpB, kB, String(<<>>))>>),
      TStruct(<<Embedded(kUpC, TStruct(<<Embedded(kUpC, LeafTwo)>>))>>),
      TStruct(<<Embedded(kUpC, TStruct(<<Embedded(kUpC, TStruct(<<Embedded(kUpC, LeafTwo)>>))>>))>>),
      TStruct(<<Embedded(kUpC, LeafPlain), OuterField(<<>>)>>),
      TStruct(<<Embedded(kUpC, Leaf), OuterField(kA)>>),
      TStruct(<<OuterField(<<>>), Embedded(kUpC, LeafPlain)>>),
      TStruct(<<OuterField(<<>>), Embedded(kUpC, Leaf)>>),
      TStruct(<<OuterField(kA), Embedded(kUpC, Leaf)>>) }

EmbeddedInputs ==
    {BindInput("embedded", x, TMap(kA :> String(<<"x">>))) : x \in EmbeddedStructs}

\* destinations Bind rejects
DestInputs ==
    { [BindInput("dest", OneField("int"), TMap(kA :> IntOf("int", Num(FALSE, <<1>>))))
          EXCEPT !.dk = dk] : dk \in {"nil", "struct", "nilptr", "scalarptr"} }

\* a struct of three fields that hold values already, one with a nested
\* struct, and two whose fields are nil pointers, which a failing setValue
\* leaves allocated
Three == TStruct(<< Field(kUpA, kA, IntOf("int8", Num(FALSE, <<7>>))),
                   Field(kUpB, kB, String(<<"o">>)),
                   Field(kUpC, kC, Bool(FALSE)) >>)
Nesting == TStruct(<< Field(kUpA, kA,
                           TStruct(<< Field(kUpB, kB, IntOf("int8", Num(FALSE, <<7>>))),
                                      Field(kUpC, kC, String(<<"o">>)) >>)),
                     Field(kUpB, kB, String(<<"o">>)) >>)
Pointing == TStruct(<< Field(kUpA, kA, NilPtr(IntOf("int8", Num(FALSE, <<0>>)))),
                      Field(kUpB, kB, String(<<"o">>)) >>)
PointingTwice == TStruct(<< Field(kUpA, kA, NilPtr(IntOf("int8", Num(FALSE, <<0>>)))),
                           Field(kUpB, kB, NilPtr(IntOf("int8", Num(FALSE, <<0>>)))) >>)

\* mappings with a value that cannot be coerced, with two of them, with a
\* key that names no field, and with the failure inside a nested mapping
FailFastInputs ==
    { BindInput("failfast", Three,
                TMap(kA :> String(<<"x">>) @@ kB :> String(<<"y">>) @@ kC :> Bool(TRUE))),
      BindInput("failfast", Three,
                TMap(kA :> IntOf("int", Num(FALSE, <<1>>)) @@ kB :> String(<<"y">>)
                     @@ <<"z">> :> IntOf("int", Num(FALSE, <<5>>)))),
      BindInput("failfast", Three,
                TMap(kA :> IntOf("int", Num(FALSE, <<1, 0, 0, 0>>)) @@ kB :> String(<<"y">>)
                     @@ kC :> String(<<"m">>))),
      BindInput("failfast", Three,
                TMap(<<"z">> :> TMap(kA :> String(<<"x">>)) @@ kUpA :> String(<<"x">>))),
      BindInput("failfast", Nesting,
                TMap(kA :> TMap(kB :> String(<<"x">>) @@ kC :> String(<<"y">>))
                     @@ kB :> String(<<"z">>))),
      BindInput("failfast", Pointing,
                TMap(kA :> String(<<"x">>) @@ kB :> String(<<"y">>))),
      BindInput("failfast", PointingTwice,
                TMap(kA :> String(<<"x">>) @@ kB :> String(<<"y">>))) }

\* environments: a variable with the prefix and one without, one with the
\* separator "__", and an unsafe one next to two names that differ in case
EnvVars ==
    { <<"A", "P", "_", "B", "_", "C">> :> Val(1) @@ <<"B", "_", "C">> :> Val(2),
      <<"A", "P", "_", "B", "_", "_", "C">> :> Val(1) @@ <<"A">> :> Val(2),
      <<"C", "I">> :> Val(1) @@ <<"a", "p", "_", "b">> :> Val(2) @@ <<"A", "P", "_", "B">> :> Val(3) }

EnvPrefixes == {<<>>, <<"A", "P", "_">>, <<" ", "a", "p", "_">>}
EnvSeparators == {<<"_", "_">>, <<>>, <<"_">>}

EnvInputs ==
    { [group |-> "env", fn |-> "ParseVariables", vars |-> vs, pre |-> p, sep |-> sep,
       normalizeKey |-> nk]
      : vs \in EnvVars, p \in EnvPrefixes, sep \in EnvSeparators, nk \in BOOLEAN }

LibInputs == OverflowInputs \cup RoundTripInputs \cup SameFieldInputs
                 \cup EmbeddedInputs \cup DestInputs \cup FailFastInputs \cup EnvInputs

\* nothing unbound or bound yet: the destinations as they are before Bind
LibNoRet(y) == [m |-> TMap(EmptyMap), dst |-> y, err |-> NoErr, dst2 |-> y, err2 |-> NoErr]

LibInit ==
    /\ \E in \in LibInputs :
           /\ op = [name |-> "input"] @@ in
           /\ ret = LibNoRet(IF in.fn = "Bind" THEN in.x
                             ELSE IF in.fn = "Unbind" THEN ZeroOf(in.x)
                             ELSE TStruct(<<>>))
    /\ heap = [a \in Addrs |-> IF a = values THEN MapObj(EmptyMap) ELSE Free]
    /\ providers = <<>>
    /\ extensions = <<>>
    /\ mu = FALSE
    /\ load = IdleLoad
    /\ pre = TMap(EmptyMap)
    /\ steps = 0

\* Unbind(&x, m) on an empty m
LibUnbind ==
    /\ op.name = "input"
    /\ op.fn = "Unbind"
    /\ op' = [op EXCEPT !.name = "Unbind"]
    /\ ret' = [ret EXCEPT !.m = Unbind(op.x)]
    /\ UNCHANGED <<heap, providers, extensions, mu, load, pre, steps>>

\* Bind(m, &y): of the input mapping into the input struct, or of what Unbind
\* gave into a zero-valued struct of the type of x
LibBind ==
    /\ \/ op.name = "input" /\ op.fn = "Bind"
       \/ op.name = "Unbind"
    /\ LET m == IF op.fn = "Bind" THEN op.src ELSE ret.m
           y == IF op.fn = "Bind" THEN op.x ELSE ZeroOf(op.x)
       IN \E r \in Bind(m, [k |-> op.dk, s |-> y]) :
              ret' = [ret EXCEPT !.m = m, !.dst = r.dst.s, !.err = r.err]
    /\ op' = [op EXCEPT !.name = "Bind"]
    /\ UNCHANGED <<heap, providers, extensions, mu, load, pre, steps>>

\* Bind of the same mapping into a second struct like the first
LibBindAgain ==
    /\ op.name = "Bind"
    /\ LET y == IF op.fn = "Bind" THEN op.x ELSE ZeroOf(op.x)
       IN \E r \in Bind(ret.m, [k |-> op.dk, s |-> y]) :
              ret' = [ret EXCEPT !.dst2 = r.dst.s, !.err2 = r.err]
    /\ op' = [op EXCEPT !.name = "BindAgain"]
    /\ UNCHANGED <<heap, providers, extensions, mu, load, pre, steps>>

\* ParseVariables(vars, pre, sep, normalizeKey)
LibParseVariables ==
    /\ op.name = "input"
    /\ op.fn = "ParseVariables"
    /\ \E data \in ParseVariables(op.vars, op.pre, op.sep, op.normalizeKey) :
           ret' = [ret EXCEPT !.m = data]
    /\ op' = [op EXCEPT !.name = "ParseVariables"]
    /\ UNCHANGED <<heap, providers, extensions, mu, load, pre, steps>>

LibNext == LibUnbind \/ LibBind \/ LibBindAgain \/ LibParseVariables

LibSpec == LibInit /\ [][LibNext]_vars

(***************************************************************************)
(* C16                                                                     *)
(***************************************************************************)
\* C16: for every struct x of directly coercible kinds, with or without json
\* tags, Unbind(x, m) on an empty m and then Bind(m, &y) on a zero-valued y
\* of the type of x succeeds and leaves y equal to x.
C16_UnbindBindRoundTrip ==
    op.name = "Bind" /\ op.fn = "Unbind" => ret.err = NoErr /\ ret.dst = op.x

(***************************************************************************)
(* C17                                                                     *)
(***************************************************************************)
\* the source is a float outside the 64-bit range, whose conversion the
\* platform decides
PlatformChoice ==
    /\ op.group = "overflow"
    /\ op.src.m[kA].v.k \in FloatKinds
    /\ Cardinality(FloatToInt64(op.src.m[kA].v) \cup FloatToUint64(op.src.m[kA].v)) > 1

\* C17: binding the same mapping into two destinations alike yields equal
\* destinations and the same success or failure, whatever the order in which
\* the keys of the mapping are visited.
C17_BindDeterministic ==
    op.name = "BindAgain" /\ ~PlatformChoice =>
        /\ ret.dst2 = ret.dst
        /\ (ret.err2 = NoErr) = (ret.err = NoErr)

(***************************************************************************)
(* C18                                                                     *)
(***************************************************************************)
\* the keys that name a field: its tag name and its lower-cased name
KeysOf(sf) == {ToLower(sf.name)} \cup (IF TagNames(sf.tag) THEN {TagName(sf.tag)} ELSE {})

\* the paths to the fields the key names: the fields of the struct itself
\* and, when it has none, those of its embedded structs
RECURSIVE PathsTo(_, _)
PathsTo(x, k) ==
    LET own == {<<i>> : i \in {j \in 1..Len(x.f) :
                                  ~x.f[j].anon /\ x.f[j].exp /\ k \in KeysOf(x.f[j])}}
        inner(j) == IF x.f[j].v.t = "ptr" THEN x.f[j].v.v ELSE x.f[j].v
        below == UNION { {<<j>> \o q : q \in PathsTo(inner(j), k)}
                         : j \in {i \in 1..Len(x.f) : x.f[i].anon /\ x.f[i].exp} }
    IN IF own # {} THEN own ELSE below

\* C18: a field of an embedded struct, at any depth and behind a nil
\* embedded pointer, is bound from the top-level key equal to its own key,
\* and an outer field of the same key, declared before or after, by tag or
\* by name, receives the value instead and leaves the embedded field as it was.
C18_EmbeddedFlattening ==
    op.name = "Bind" /\ op.group = "embedded" =>
        /\ ret.err = NoErr
        /\ \E q \in PathsTo(op.x, kA) :
               ret.dst \in {r.dst : r \in SetByPath(op.x, q, op.src.m[kA])}

(***************************************************************************)
(* C19, C20                                                                *)
(***************************************************************************)
\* the kind of the field A of the destination, and of the source value
DstKind == op.x.f[1].v.v.k
SrcKind == op.src.m[kA].v.k

\* the number n fits the integer kind k
Fits(n, k) ==
    IF k \in IntKinds THEN withinIntRange(n, Bits(k))
    ELSE ~n.neg /\ withinUintRange(n, Bits(k))

\* C19: binding an integer-valued source of any numeric kind, or a decimal
\* string, into a signed or unsigned field of 8, 16 or 32 bits succeeds
\* exactly when the value fits; otherwise it fails with ErrIntegerOverflow
\* (ErrUnsignedIntegerOverflow for an unsigned field) naming the kind of the
\* field and the value, and the field keeps its value.
C19_OverflowGuard ==
    op.name = "Bind" /\ op.group = "overflow" /\ Bits(DstKind) < 64 =>
        IF Fits(op.n, DstKind)
        THEN ret.err = NoErr /\ ret.dst.f[1].v = IntOf(DstKind, op.n)
        ELSE /\ ret.err.e = IF DstKind \in IntKinds THEN "ErrIntegerOverflow"
                            ELSE "ErrUnsignedIntegerOverflow"
             /\ ret.err.kind = DstKind
             /\ ret.err.val = op.n
             /\ ret.dst = op.x

\* C19 where the source converts to 64 bits: a value within the int64 range
\* into a signed field, and a value that is not negative, within the uint64
\* range and of another kind than float32 into an unsigned field, are
\* guarded as stated.
C19_GuardOfConvertedValue ==
    /\ op.name = "Bind" /\ op.group = "overflow" /\ Bits(DstKind) < 64
    /\ IF DstKind \in IntKinds THEN NumLeq(MinInt64, op.n) /\ NumLeq(op.n, MaxInt64)
       ELSE ~op.n.neg /\ NumLeq(op.n, MaxUint64) /\ SrcKind # "float32"
    => IF Fits(op.n, DstKind)
       THEN ret.err = NoErr /\ ret.dst.f[1].v = IntOf(DstKind, op.n)
       ELSE /\ ret.err.e = IF DstKind \in IntKinds THEN "ErrIntegerOverflow"
                           ELSE "ErrUnsignedIntegerOverflow"
            /\ ret.err.kind = DstKind
            /\ ret.err.val = op.n
            /\ ret.err.fields = <<kUpA>>
            /\ ret.dst = op.x

\* the stated examples: "99999" and "100" were bound into an int8 field
C19_Examples ==
    /\ op.name = "Bind" /\ op.group = "overflow" /\ DstKind = "int8" /\ SrcKind = "string"
    /\ \/ op.n.d = <<9, 9, 9, 9, 9>> /\ ret.err.e = "ErrIntegerOverflow"
       \/ op.n.d = <<1, 0, 0>> /\ ~op.n.neg /\ ret.err = NoErr

\* C20: binding a negative value of any numeric kind (int, int8, int16,
\* int32, int64, float32, float64) into an unsigned field fails with the
\* negative-value error of the kind of the source, and the field keeps its
\* value.
C20_UnsignedRejectsNegative ==
    /\ op.name = "Bind" /\ op.group = "overflow"
    /\ DstKind \in UintKinds /\ SrcKind \in IntKinds \cup FloatKinds /\ op.n.neg
    => /\ ret.err.e = NegativeError(SrcKind)
       /\ ret.dst = op.x

(***************************************************************************)
(* C21                                                                     *)
(***************************************************************************)
\* the orders in which the keys of a mapping may be visited
Orders(S) ==
    {o \in [1..Cardinality(S) -> S] : \A i, j \in 1..Cardinality(S) : o[i] = o[j] => i = j}

\* binding the keys in the order ks, field by field: a key that names no
\* field is passed over, and the first value that cannot be coerced ends the
\* run with its error under the name of the field, the fields assigned
\* before staying assigned
RECURSIVE FailFast(_, _, _, _)
FailFast(rv, fieldMap, m, ks) ==
    IF ks = <<>> THEN {[dst |-> rv, err |-> NoErr]}
    ELSE IF Head(ks) \notin DOMAIN fieldMap THEN FailFast(rv, fieldMap, m, Tail(ks))
    ELSE UNION { IF r.err # NoErr
                 THEN {[dst |-> r.dst, err |-> Wrapped(fieldMap[Head(ks)].Name, r.err)]}
                 ELSE FailFast(r.dst, fieldMap, m, Tail(ks))
                 : r \in SetByPath(rv, fieldMap[Head(ks)].Path, m[Head(ks)]) }

\* C21: Bind returns the error of the first value, in the order the keys are
\* visited, that cannot be coerced, wrapped with the name of its field; it
\* assigns no field after it and keeps the fields assigned before it; a key
\* that names no field is ignored and causes no error.
C21_BindFailFast ==
    op.name = "Bind" /\ op.group = "failfast" =>
        \E o \in Orders(DOMAIN op.src.m) :
            [dst |-> ret.dst, err |-> ret.err]
                \in FailFast(op.x, buildStructFieldMap(op.x), op.src.m, o)

\* a Bind failed on the field A after it assigned B and before it came to
\* C, whose value can be coerced
C21_Witness ==
    /\ op.name = "Bind" /\ op.group = "failfast"
    /\ kC \in DOMAIN op.src.m /\ op.src.m[kC] = Bool(TRUE)
    /\ ret.err.e # "" /\ ret.err.fields = <<kUpA>>
    /\ ret.dst.f[2].v = String(<<"y">>)
    /\ ret.dst.f[3].v = Bool(FALSE)
    /\ ret.dst.f[1].v = op.x.f[1].v

(***************************************************************************)
(* C22                                                                     *)
(***************************************************************************)
\* FindNestedMap on the container segments of key, as it would run now
FindNow(key, create) == FindNestedMap(heap, values, keyToPathParts(key).pathParts, create)

\* C22: when a container segment of k resolves to an existing value that is
\* no mapping, FindNestedMap returns nil with and without create and leaves
\* the mapping as it is, and Set(k, v) and SetDefault(k, v) leave the whole
\* mapping unchanged; without create FindNestedMap changes nothing for any k.
C22_BlockedPathNotForced ==
    /\ \A k \in PathKeys \ {<<>>} :
           /\ FindNow(k, FALSE).h = heap
           /\ Blocked(Mapping(heap), k) /\ Room(heap, 2) =>
                  \A create \in BOOLEAN :
                      FindNow(k, create).r = NoMap /\ FindNow(k, create).h = heap
    /\ op.name \in {"Set", "SetDefault"} /\ Blocked(pre, op.key) => Mapping(heap) = pre
    /\ op.name \in {"Get", "Find"} => Mapping(heap) = pre

\* Set("a.b.c", 2) ran where a.b held 1
C22_Witness ==
    /\ op.name = "Set"
    /\ op.key = kABC
    /\ op.arg = Val(2)
    /\ TreeAt(pre, <<kA, kB>>) = Val(1)
    /\ TreeAt(Mapping(heap), <<kA, kB>>) = Val(1)

(***************************************************************************)
(* C23                                                                     *)
(***************************************************************************)
\* no mapping of the tree, at any depth, has a key that normalizes to the
\* empty string
RECURSIVE NoEmptyKey(_)
NoEmptyKey(t) ==
    IsTMap(t) => \A k \in DOMAIN t.m : NormalKey(k) # <<>> /\ NoEmptyKey(t.m[k])

\* C23: after any sequence of Set, SetDefault, SetDefaults and Load no
\* mapping at any depth of the Config holds a key whose normalized form is
\* the empty string.
C23_NoEmptyKeyStored == NoEmptyKey(Mapping(heap))

(***************************************************************************)
(* C24                                                                     *)
(***************************************************************************)
\* the prefix as ParseVariables compares it
PrefixOf(o) == ToLower(TrimSpace(o.pre))

\* the mappings built from the variables whose lower-cased name starts with
\* the prefix, every key made from the name without the prefix
RECURSIVE PrefixStripped(_, _, _, _, _, _)
PrefixStripped(data, vs, todo, prefix, sep, normalizeKey) ==
    IF todo = {} THEN {data}
    ELSE UNION { LET key == ToLower(TrimSpace(k))
                     next == IF IsUnsafeVar(key) \/ ~HasPrefix(key, prefix) THEN data
                             ELSE Emit(data, TrimPrefix(key, prefix), TrimPrefix(key, prefix),
                                       vs[k], sep, normalizeKey)
                 IN PrefixStripped(next, vs, todo \ {k}, prefix, sep, normalizeKey)
                 : k \in todo }

\* C24: with a prefix that is not empty ParseVariables emits entries only
\* for the variables whose lower-cased name starts with the lower-cased
\* prefix, and builds every key it emits from the name with the prefix
\* stripped, for both values of normalizeKey.
C24_PrefixStripped ==
    op.name = "ParseVariables" /\ PrefixOf(op) # <<>> =>
        ret.m \in PrefixStripped(TMap(EmptyMap), op.vars, DOMAIN op.vars, PrefixOf(op),
                                 op.sep, op.normalizeKey)

\* C24, the half that holds: the variables whose lower-cased name does not
\* start with the prefix leave nothing in the result
C24_OnlyPrefixedEmitted ==
    op.name = "ParseVariables" /\ PrefixOf(op) # <<>> =>
        ret.m \in ParseVariablesRange(
                      TMap(EmptyMap), op.vars,
                      {k \in DOMAIN op.vars : HasPrefix(ToLower(TrimSpace(k)), PrefixOf(op))},
                      PrefixOf(op), op.sep, op.normalizeKey)

\* the repository's case: a prefixed variable next to one without the
\* prefix, separator "__", names normalized
C24_Examples ==
    /\ op.name = "ParseVariables"
    /\ PrefixOf(op) = <<"a", "p", "_">> /\ op.sep = <<"_", "_">> /\ op.normalizeKey
    /\ <<"B", "_", "C">> \in DOMAIN op.vars
    /\ DOMAIN ret.m.m = {<<"b", "c">>, <<"a", "p", "_", "b", "_", "c">>}

(***************************************************************************)
(* C25                                                                     *)
(***************************************************************************)
\* the lock is held only between c.mu.Lock() and the unlock of the same
\* LoadWithContext: never while a hook runs, and never after the return
LockFreeOutsideMerge == load.pc \in {"idle", "pre", "post"} => ~mu

\* the merge phase never waits for memory of the model
MergeNeverStarved ==
    load.pc = "merge" /\ load.i <= Len(providers) /\ ~providers[load.i].err =>
        Room(heap, TreeObjs(providers[load.i].data))

\* C25: when every provider and every hook returns, LoadWithContext returns,
\* and whenever it is not between its Lock and its Unlock - while a hook
\* runs, and after it returned with success or with the failure of a
\* provider or a hook - the lock is free, so that Get, Set, SetDefault and
\* Values from a hook or a later caller go through.
C25_LoadNeverLeavesLocked ==
    /\ [](load.pc \in {"idle", "pre", "post"} => ~mu /\ Lockable(mu))
    /\ [](load.pc # "idle" => <>(load.pc = "idle" /\ ~mu))

\* a Set made while the post-load hooks ran went through, after the merge
\* of a provider, and the Load returned
C25_Witness ==
    /\ op.name = "Set" /\ op.key # <<>>
    /\ op.lpc = "post" /\ op.lmerged >= 1
    /\ load.pc = "idle" /\ load.res = "ok"
    /\ ~mu

(***************************************************************************)
(* C26                                                                     *)
(***************************************************************************)
\* the heap of a new Config
NewHeap == [a \in Addrs |-> IF a = values THEN MapObj(EmptyMap) ELSE Free]

\* maps.Merge(c.values, out) for the outputs from the i-th on, in order
RECURSIVE MergeAll(_, _, _)
MergeAll(hs, outs, i) ==
    IF i > Len(outs) THEN hs
    ELSE MergeAll(UNION { LET out == Build(h, outs[i])
                          IN {Collect(h2, {values}) : h2 \in Merge(out.h, values, out.v.a)}
                          : h \in hs },
                  outs, i + 1)

\* the mappings SetDefault(key, t); Load can leave on a new Config whose
\* providers return outs
SeedThenLoad(key, t, outs) ==
    LET value == Build(NewHeap, t)
    IN {Mapping(h) : h \in MergeAll({SetDefaultOn(value.h, key, value.v)}, outs, 1)}

\* on a new Config a Load succeeded and then SetDefault(k, d) was called
LoadThenSeed ==
    /\ op.name = "SetDefault" /\ op.key # <<>>
    /\ op.lres = "ok" /\ op.lpc = "idle"
    /\ load.pc = "idle" /\ load.start = TMap(EmptyMap)
    /\ steps = 2

\* C26: Load; SetDefault(k, d) ends in a mapping that SetDefault(k, d); Load
\* ends in as well, for every key k, every value d and every list of
\* provider outputs.
C26_DefaultOrderIrrelevant ==
    LoadThenSeed => Mapping(heap) \in SeedThenLoad(op.key, op.arg, load.outs)

\* C26 for a default that is no mapping
C26_ScalarDefaultOrderIrrelevant ==
    LoadThenSeed /\ ~IsTMap(op.arg) =>
        Mapping(heap) \in SeedThenLoad(op.key, op.arg, load.outs)

\* C26 for a default that is no mapping and providers whose keys are all
\* normalized
C26_NormalKeysOrderIrrelevant ==
    LoadThenSeed /\ ~IsTMap(op.arg) /\ (\A j \in 1..Len(load.outs) : KeysNormal(load.outs[j])) =>
        Mapping(heap) \in SeedThenLoad(op.key, op.arg, load.outs)

(***************************************************************************)
(* C27                                                                     *)
(***************************************************************************)
\* the last Load returned the error of a provider and no call has touched
\* the mapping since that Load took the lock
FailedAtProvider ==
    /\ load.pc = "idle" /\ load.res = "ErrProviderLoadFailed"
    /\ op.name \in {"Merge", "Load"} \/ op.lpc = "pre"

\* the names of the providers the last Load called, in order
RECURSIVE ProvidersCalled(_)
ProvidersCalled(tr) ==
    IF tr = <<>> THEN <<>>
    ELSE IF Head(tr).k = "Load" THEN <<Head(tr).n>> \o ProvidersCalled(Tail(tr))
    ELSE ProvidersCalled(Tail(tr))

\* C27: when Load fails at the i-th provider the mapping is the mapping of
\* before the Load override-merged with the outputs of providers 1..i-1 in
\* order, the lock is free so that every later Get sees those values, and no
\* provider after the i-th was called.
C27_FailedLoadNotRolledBack ==
    FailedAtProvider =>
        /\ providers[load.i].err
        /\ \A j \in 1..(load.i - 1) : ~providers[j].err
        /\ Len(load.outs) = load.i - 1
        /\ Mapping(heap) \in FoldMerge({load.start}, load.outs, 1)
        /\ ProvidersCalled(load.trace) = [j \in 1..load.i |-> providers[j].name]
        /\ ~mu
        /\ \A n \in {kA, kB, kC} : SuppliersOf(<<n>>) # {} => FoundNow(n)

\* a Load on a mapping that was not empty failed at a provider between
\* others: the values of the providers before it are there, those of the
\* provider after it are not
C27_Witness ==
    /\ FailedAtProvider
    /\ load.i > 1 /\ load.i < Len(providers)
    /\ load.start # TMap(EmptyMap)
    /\ Mapping(heap) # load.start
    /\ FoundNow(kAB) /\ ~FoundNow(kC)

(***************************************************************************)
(* C28                                                                     *)
(***************************************************************************)
\* the providers that hand out the same map object on every call
Caching == {i \in 1..Len(providers) : ~providers[i].fresh}

\* the map a caching provider returns holds what the provider put into it
OutputIntact(i) == TreeOf(heap, Ref(providers[i].out)) = providers[i].data

\* C28: no Load, Set, SetDefault or SetDefaults changes a mapping a provider
\* returned: in every reachable state the map object of every caching
\* provider still holds the data the provider built.
C28_InputsNeverModified == \A i \in Caching : OutputIntact(i)

\* C28, the sharing itself: no map or slice object reachable from the
\* mapping of the Config is reachable from a map a provider returned.
C28_NoSharedMapping ==
    ReachFrom(heap, {values}) \cap ReachFrom(heap, CachedOuts(providers)) = {}

\* the top-level map object of a provider is never the Config's and is never
\* written by a merge of its own keys: only nested objects are shared
C28_TopLevelNotShared == CachedOuts(providers) \cap ReachFrom(heap, {values}) = {}

(***************************************************************************)
(* C29                                                                     *)
(***************************************************************************)
\* C29: in every reachable state Values() returns normally and returns a
\* tree equal to the mapping, keys holding nil and sequences holding nil
\* elements included.
C29_ValuesFaithful == CanRead => ValuesNow = Mapping(heap)

\* C29, its consequence: Find(k) reports found exactly when the path of k
\* is present in what Values() returns.
C29_FindAgreesWithValues ==
    CanRead =>
        \A key \in PathKeys \ {<<>>} :
            /\ ValuesNow # [t |-> "panic"]
            /\ FoundNow(key) <=> TreeAt(ValuesNow, PathOf(key)) # Absent

\* Values() returns normally and faithfully for a mapping that holds no nil
C29_FaithfulWithoutNil == CanRead /\ ~HasNilInside(Mapping(heap)) => ValuesNow = Mapping(heap)

(***************************************************************************)
(* C30                                                                     *)
(***************************************************************************)
\* the provider loop of one more Load from the i-th provider on, every
\* provider returning what it returned before (a caching provider its map
\* object): the heaps it can end in
RECURSIVE LoadAgain(_, _)
LoadAgain(hs, i) ==
    IF i > Len(providers) THEN hs
    ELSE LoadAgain(UNION { LET p == providers[i]
                               out == IF p.fresh THEN Build(h, p.data)
                                      ELSE [h |-> h, v |-> Ref(p.out)]
                           IN {Collect(h2, Roots(providers, NoRet))
                                 : h2 \in Merge(out.h, values, out.v.a)}
                           : h \in hs },
                   i + 1)

\* room for the output of every provider that builds a new map per call
RECURSIVE FreshObjs(_)
FreshObjs(i) ==
    IF i > Len(providers) THEN 0
    ELSE (IF providers[i].fresh THEN TreeObjs(providers[i].data) ELSE 0) + FreshObjs(i + 1)

\* a Load has merged every provider and returned nil, and no call has
\* touched the mapping since
Loaded ==
    /\ load.pc = "idle" /\ load.res = "ok"
    /\ op.name = "Merge"
    /\ Room(heap, FreshObjs(1))

\* C30: after a successful Load one more Load, with every provider returning
\* what it returned before, leaves the mapping as it is.
C30_LoadIdempotent ==
    Loaded => \A h \in LoadAgain({heap}, 1) : Mapping(h) = Mapping(heap)

\* merging the same outputs once more by value, into maps the outputs do
\* not share, changes nothing when no two keys of an output collide
C30_IdempotentByValue ==
    Loaded /\ (\A i \in 1..Len(load.outs) : KeysNormal(load.outs[i]))
        => FoldMerge({Mapping(heap)}, load.outs, 1) = {Mapping(heap)}

\* the Load actions themselves: after a Load had stored the map of a caching
\* provider, one more Load has ended in another mapping than it started from
C30_SecondLoadChanges ==
    /\ steps = 2 /\ Loaded
    /\ \A i \in 1..Len(providers) : KeysNormal(providers[i].data)
    /\ \E i \in Caching : load.outs[i] # providers[i].data
    /\ Mapping(heap) # load.start

====
